---- MODULE Spec2Model ----
(***************************************************************************)
(* A model of the press-release processing core of mouser-automation       *)
(* (src/lib/press_release.py) and of its webhook handler                   *)
(* (src/api/webhook.py).                                                   *)
(*                                                                         *)
(* Python strings are modelled as sequences of one-character strings, so   *)
(* that find, startswith, `in`, slicing, splicing and the regular          *)
(* expressions of the source are computed on characters as the code        *)
(* computes them.  Each component gets its own specification:              *)
(*   SpecHtml    get_paragraph_html / extract_hyperlinks / clean_url       *)
(*   Spec        parse_docx, one paragraph per step                        *)
(*   SpecProcess process_press_release / find_files                        *)
(*   SpecMonth   generate_month_folder                                     *)
(*   SpecImage   convert_png_to_jpg                                        *)
(*   SpecFind    find_files                                                *)
(*   SpecRender  generate_press_release_html / generate_email_html         *)
(*   SpecConcurrent  two interleaved process_press_release invocations     *)
(*   SpecWebhook     handler, one request per behaviour                    *)
(***************************************************************************)
EXTENDS Integers, Sequences, FiniteSets, TLC

VARIABLES
    \* get_paragraph_html
    paragraph, hyperlinks, linked_ranges, result_text, html_pc,
    \* parse_docx
    doc, docx_result, current_section, current_about_title, docx_pc,
    \* generate_month_folder
    date_parts, date_str, now, month_folder, month_pc,
    \* convert_png_to_jpg
    img, img_result, img_pc,
    \* process_press_release
    folder_path, folder_exists, listing, fs, files, content,
    image_dimensions, proc_result, failure, proc_pc,
    \* generate_press_release_html, generate_email_html
    render_args, render_calls, render_pc,
    \* concurrent invocations of process_press_release
    invocations, scripts, disk, start_disk, config, overlapped,
    \* handler of api/webhook.py
    request, ticket_info, temp_dir, temp_files, wh_result, upload_result,
    calls, response, wh_pc

htmlVars == <<paragraph, hyperlinks, linked_ranges, result_text, html_pc>>

docxVars == <<doc, docx_result, current_section, current_about_title, docx_pc>>

monthVars == <<date_parts, date_str, now, month_folder, month_pc>>

imageVars == <<img, img_result, img_pc>>

procVars ==
    <<folder_path, folder_exists, listing, fs, files, content,
      image_dimensions, proc_result, failure, proc_pc>>

renderVars == <<render_args, render_calls, render_pc>>

concVars == <<invocations, scripts, disk, start_disk, config, overlapped>>

webhookVars ==
    <<request, ticket_info, temp_dir, temp_files, wh_result, upload_result,
      calls, response, wh_pc>>

vars ==
    <<htmlVars, docxVars, monthVars, imageVars, procVars, renderVars,
      concVars, webhookVars>>

\* the variables each component leaves alone
notHtml ==
    <<docxVars, monthVars, imageVars, procVars, renderVars, concVars,
      webhookVars>>

notDocx ==
    <<htmlVars, monthVars, imageVars, procVars, renderVars, concVars,
      webhookVars>>

notMonth ==
    <<htmlVars, docxVars, imageVars, procVars, renderVars, concVars,
      webhookVars>>

notImage ==
    <<htmlVars, docxVars, monthVars, procVars, renderVars, concVars,
      webhookVars>>

notProc ==
    <<htmlVars, docxVars, monthVars, imageVars, renderVars, concVars,
      webhookVars>>

notRender ==
    <<htmlVars, docxVars, monthVars, imageVars, procVars, concVars,
      webhookVars>>

notWebhook ==
    <<htmlVars, docxVars, monthVars, imageVars, procVars, renderVars,
      concVars>>

notConc ==
    <<htmlVars, docxVars, monthVars, imageVars, procVars, renderVars,
      webhookVars>>

(***************************************************************************)
(* Strings                                                                 *)
(***************************************************************************)

\* s[a:b] of Python, 0-based, for 0 <= a <= b <= len(s)
Slice(s, a, b) == SubSeq(s, a + 1, b)

\* s.startswith(p)
StartsWith(s, p) == Len(p) <= Len(s) /\ Slice(s, 0, Len(p)) = p

\* the offsets at which p occurs in s
Occurrences(s, p) ==
    {i \in 0..(Len(s) - Len(p)) : Slice(s, i, i + Len(p)) = p}

\* p in s
Contains(s, p) == Occurrences(s, p) # {}

SetMin(S) == CHOOSE x \in S : \A y \in S : x <= y

\* s.find(p): the lowest offset of p in s, or -1
Find(s, p) == IF Contains(s, p) THEN SetMin(Occurrences(s, p)) ELSE -1

\* the characters str.strip() removes
Whitespace == {" ", "\t", "\n"}

RECURSIVE LStrip(_)
LStrip(s) ==
    IF s # <<>> /\ Head(s) \in Whitespace THEN LStrip(Tail(s)) ELSE s

RECURSIVE RStrip(_)
RStrip(s) ==
    IF s # <<>> /\ s[Len(s)] \in Whitespace
    THEN RStrip(Slice(s, 0, Len(s) - 1))
    ELSE s

\* s.strip()
Strip(s) == RStrip(LStrip(s))

\* "<a href=""
ANCHOR_OPEN ==
    <<"<","a"," ","h","r","e","f","=","\"">>

\* "" target="_blank">"
ANCHOR_MID ==
    <<"\""," ","t","a","r","g","e","t","=","\"","_","b","l","a","n","k","\"",">">>

\* "</a>"
ANCHOR_CLOSE ==
    <<"<","/","a",">">>

(***************************************************************************)
(* clean_url, extract_hyperlinks, get_paragraph_html                       *)
(***************************************************************************)

\* the value of a relationship that is absent or has no target
NoTarget == <<>>

\* url.split('?')[0]: the part before the first '?', the whole url without one
clean_url(url) ==
    IF url = <<>> THEN url
    ELSE IF Contains(url, <<"?">>) THEN Slice(url, 0, Find(url, <<"?">>))
    ELSE url

\* A Python dict as the sequence of its <<key, value>> items in insertion order.
DictHas(d, k) == \E i \in 1..Len(d) : d[i][1] = k

\* d[k] = v: a new key goes last, an old key keeps its place and gets the value
DictSet(d, k, v) ==
    IF DictHas(d, k)
    THEN [i \in 1..Len(d) |-> IF d[i][1] = k THEN <<k, v>> ELSE d[i]]
    ELSE Append(d, <<k, v>>)

DictGet(d, k) == d[CHOOSE i \in 1..Len(d) : d[i][1] = k][2]

\* The w:hyperlink elements of a paragraph: r_id (whether the element has an
\* r:id), target_ref (the relationship's target, NoTarget when there is none)
\* and text (the joined text of its w:t nodes).
RECURSIVE ExtractFrom(_, _)
ExtractFrom(elems, acc) ==
    IF elems = <<>> THEN acc
    ELSE LET h == Head(elems)
             keep == h.r_id /\ h.target_ref # NoTarget /\ h.text # <<>>
         IN ExtractFrom(Tail(elems),
                        IF keep THEN DictSet(acc, h.text, h.target_ref) ELSE acc)

extract_hyperlinks(para) == ExtractFrom(para.links, <<>>)

\* link_positions: one (pos, length, link_text, url) per link text found in text
RECURSIVE LinkPositions(_, _)
LinkPositions(text, links) ==
    IF links = <<>> THEN <<>>
    ELSE LET link_text == Head(links)[1]
             url == Head(links)[2]
             pos == Find(text, link_text)
             rest == LinkPositions(text, Tail(links))
         IN IF pos >= 0
            THEN <<[pos |-> pos, length |-> Len(link_text),
                    link_text |-> link_text, url |-> url]>> \o rest
            ELSE rest

\* the candidates in ascending order of start and length
SortKeyAscending(a, b) ==
    a.pos < b.pos \/ (a.pos = b.pos /\ a.length < b.length)

\* the sort key (-pos, -length)
SortKeyBefore(a, b) ==
    a.pos > b.pos \/ (a.pos = b.pos /\ a.length > b.length)

\* Overlaps testing only whether the candidate starts inside a claimed range
OverlapsStartOnly(pos, length, ranges) ==
    \E i \in 1..Len(ranges) : ranges[i][1] <= pos /\ pos < ranges[i][2]

\* not (pos + length <= start or pos >= end) for some claimed (start, end)
Overlaps(pos, length, ranges) ==
    \E i \in 1..Len(ranges) :
        ~(pos + length <= ranges[i][1] \/ pos >= ranges[i][2])

\* '<a href="{clean}" target="_blank">{link_text}</a>'
LinkHtml(url, link_text) ==
    ANCHOR_OPEN \o clean_url(url) \o ANCHOR_MID \o link_text \o ANCHOR_CLOSE

\* the loop over the sorted link_positions: st = [result_text, linked_ranges]
RECURSIVE SpliceLinks(_, _)
SpliceLinks(cands, st) ==
    IF cands = <<>> THEN st
    ELSE LET c == Head(cands)
         IN IF Overlaps(c.pos, c.length, st.linked_ranges)
            THEN SpliceLinks(Tail(cands), st)
            ELSE SpliceLinks(Tail(cands),
                   [result_text |->
                        Slice(st.result_text, 0, c.pos)
                        \o LinkHtml(c.url, c.link_text)
                        \o Slice(st.result_text, c.pos + c.length,
                                 Len(st.result_text)),
                    linked_ranges |->
                        Append(st.linked_ranges, <<c.pos, c.pos + c.length>>)])

\* get_paragraph_html(paragraph, include_links=True) with its final linked_ranges
RenderParagraph(para) ==
    LET links == extract_hyperlinks(para)
        text == para.text
    IN IF links # <<>>
       THEN SpliceLinks(SortSeq(LinkPositions(text, links), SortKeyBefore),
                        [result_text |-> text, linked_ranges |-> <<>>])
       ELSE [result_text |-> text, linked_ranges |-> <<>>]

get_paragraph_html(para) == RenderParagraph(para).result_text

(***************************************************************************)
(* SpecHtml: get_paragraph_html on a bounded set of paragraphs             *)
(***************************************************************************)

\* the longest paragraph text drawn, and the most w:hyperlink elements
MaxTextLen == 4
MaxLinks == 2

HtmlAlphabet == {"A", "B"}

RECURSIVE SeqsUpTo(_, _)
SeqsUpTo(S, n) ==
    IF n = 0 THEN {<<>>}
    ELSE LET shorter == SeqsUpTo(S, n - 1)
         IN shorter \cup {Append(s, x) : s \in shorter, x \in S}

\* "https://a.co/x"
UrlPlain ==
    <<"h","t","t","p","s",":","/","/","a",".","c","o","/","x">>

\* "https://mouser.com/new/p?utm=1"
UrlTracked ==
    <<"h","t","t","p","s",":","/","/","m","o","u","s","e","r",".","c","o","m","/","n","e","w",
    "/","p","?","u","t","m","=","1">>

\* "https://b.co/y?z"
UrlOther ==
    <<"h","t","t","p","s",":","/","/","b",".","c","o","/","y","?","z">>

\* "See ABC and ABC again"
TxtSeeABC ==
    <<"S","e","e"," ","A","B","C"," ","a","n","d"," ","A","B","C"," ","a","g","a","i","n">>

LinkTexts == {<<"A">>, <<"B">>, <<"A", "B">>, <<"B", "A">>, <<"A", "A">>}

\* hyperlink elements: resolvable ones, one without r:id, one whose
\* relationship has no target, one with no text
LinkElems ==
    [r_id : {TRUE}, target_ref : {UrlPlain, UrlTracked}, text : LinkTexts]
    \cup {[r_id |-> FALSE, target_ref |-> UrlPlain, text |-> <<"A">>],
          [r_id |-> TRUE, target_ref |-> NoTarget, text |-> <<"B">>],
          [r_id |-> TRUE, target_ref |-> UrlPlain, text |-> <<>>]}

\* "See ABC and ABC again" with two hyperlinks, both of text "ABC"
SeeABCParagraph ==
    [text |-> TxtSeeABC,
     links |-> <<[r_id |-> TRUE, target_ref |-> UrlPlain, text |-> <<"A", "B", "C">>],
                 [r_id |-> TRUE, target_ref |-> UrlOther, text |-> <<"A", "B", "C">>]>>]

HtmlParagraphs ==
    [text : SeqsUpTo(HtmlAlphabet, MaxTextLen), links : SeqsUpTo(LinkElems, MaxLinks)]
    \cup {SeeABCParagraph}

HtmlIdle ==
    /\ paragraph = [text |-> <<>>, links |-> <<>>]
    /\ hyperlinks = <<>>
    /\ linked_ranges = <<>>
    /\ result_text = <<>>
    /\ html_pc = "idle"

HtmlInit ==
    /\ paragraph \in HtmlParagraphs
    /\ hyperlinks = <<>>
    /\ linked_ranges = <<>>
    /\ result_text = <<>>
    /\ html_pc = "start"

\* one call of get_paragraph_html(paragraph)
GetParagraphHtml ==
    /\ html_pc = "start"
    /\ hyperlinks' = extract_hyperlinks(paragraph)
    /\ linked_ranges' = RenderParagraph(paragraph).linked_ranges
    /\ result_text' = RenderParagraph(paragraph).result_text
    /\ html_pc' = "done"
    /\ UNCHANGED <<paragraph, notHtml>>

(***************************************************************************)
(* Claims about get_paragraph_html                                         *)
(***************************************************************************)

\* the number of offsets at which p occurs in s
CountOcc(s, p) == Cardinality(Occurrences(s, p))

\* the tail of the opening tag, the link text and the closing tag of an anchor
AnchorOf(link_text) == <<"\"", ">">> \o link_text \o ANCHOR_CLOSE

RangesDisjoint(ranges) ==
    \A i, j \in 1..Len(ranges) :
        i # j => (ranges[i][2] <= ranges[j][1] \/ ranges[j][2] <= ranges[i][1])

\* the expected rendering of SeeABCParagraph: one anchor, at the first "ABC",
\* the second "ABC" left as text
SeeABCExpected ==
    Slice(TxtSeeABC, 0, 4) \o LinkHtml(UrlOther, <<"A", "B", "C">>)
    \o Slice(TxtSeeABC, 7, Len(TxtSeeABC))

\* C10: get_paragraph_html selects anchors overlap-free. After a call, every
\* link text has at most one anchor in the result; every claimed range is the
\* first occurrence of a link text in the paragraph text; no two claimed ranges
\* overlap; the result holds exactly one anchor per claimed range; and "See ABC
\* and ABC again" with two hyperlinks of text "ABC" gets exactly one anchor, the
\* second "ABC" staying text.
C10_OverlapFreeAnchors ==
    html_pc = "done" =>
        /\ \A i \in 1..Len(hyperlinks) :
               CountOcc(result_text, AnchorOf(hyperlinks[i][1])) <= 1
        /\ \A i \in 1..Len(linked_ranges) :
               LET r == linked_ranges[i]
                   t == Slice(paragraph.text, r[1], r[2])
               IN /\ DictHas(hyperlinks, t)
                  /\ r[1] = Find(paragraph.text, t)
                  /\ CountOcc(result_text, AnchorOf(t)) = 1
        /\ RangesDisjoint(linked_ranges)
        /\ CountOcc(result_text, ANCHOR_OPEN) = Len(linked_ranges)
        /\ CountOcc(result_text, ANCHOR_CLOSE) = Len(linked_ranges)
        /\ paragraph = SeeABCParagraph =>
               /\ CountOcc(result_text, ANCHOR_OPEN) = 1
               /\ result_text = SeeABCExpected

\* a call that anchored a link text occurring twice in the text and skipped
\* another candidate because its range overlapped a claimed one
C10_Witness ==
    /\ html_pc = "done"
    /\ \E i \in 1..Len(hyperlinks) :
           /\ CountOcc(paragraph.text, hyperlinks[i][1]) >= 2
           /\ CountOcc(result_text, AnchorOf(hyperlinks[i][1])) = 1
    /\ Len(linked_ranges) >= 1
    /\ Len(LinkPositions(paragraph.text, hyperlinks)) > Len(linked_ranges)

\* text from offset i on, with every range of ranges that starts at or after
\* i replaced by the anchor of its link text, all at once
RECURSIVE ReplacedFrom(_, _, _, _)
ReplacedFrom(text, ranges, links, i) ==
    IF i >= Len(text) THEN <<>>
    ELSE IF \E k \in 1..Len(ranges) : ranges[k][1] = i
    THEN LET r == ranges[CHOOSE k \in 1..Len(ranges) : ranges[k][1] = i]
             t == Slice(text, r[1], r[2])
         IN LinkHtml(DictGet(links, t), t)
                \o ReplacedFrom(text, ranges, links, r[2])
    ELSE <<text[i + 1]>> \o ReplacedFrom(text, ranges, links, i + 1)

\* C18: the result of get_paragraph_html is the paragraph text with each
\* selected range replaced at once by its anchor: no splice shifts or
\* spoils a range spliced after it, and the text outside the ranges is
\* unchanged and in its order.
C18_SimultaneousReplacement ==
    html_pc = "done" =>
        result_text =
            ReplacedFrom(paragraph.text, linked_ranges, hyperlinks, 0)

\* a call that spliced two anchors, the one at the higher offset first
C18_Witness ==
    /\ html_pc = "done"
    /\ Len(linked_ranges) = 2
    /\ linked_ranges[1][1] > linked_ranges[2][1]
    /\ Len(result_text) > Len(paragraph.text)
    /\ result_text =
           ReplacedFrom(paragraph.text, linked_ranges, hyperlinks, 0)

(***************************************************************************)
(* parse_docx                                                              *)
(***************************************************************************)

\* "New Product Announcement"
NEW_PRODUCT_ANNOUNCEMENT ==
    <<"N","e","w"," ","P","r","o","d","u","c","t"," ","A","n","n","o","u","n","c","e","m","e",
    "n","t">>

\* "About "
ABOUT_PREFIX ==
    <<"A","b","o","u","t"," ">>

\* "Trademarks"
TRADEMARKS ==
    <<"T","r","a","d","e","m","a","r","k","s">>

\* "- 30 -"
MARKER_30_DASH ==
    <<"-"," ","3","0"," ","-">>

\* "mouser.com"
MOUSER_COM ==
    <<"m","o","u","s","e","r",".","c","o","m">>

\* "/new/"
NEW_PATH ==
    <<"/","n","e","w","/">>


\* the en dash form of the closing marker, its dashes written as one character
MARKER_30_ENDASH ==
    <<"endash"," ","3","0"," ","endash">>

MONTHS ==
    << <<"J","a","n","u","a","r","y">>,
       <<"F","e","b","r","u","a","r","y">>,
       <<"M","a","r","c","h">>,
       <<"A","p","r","i","l">>,
       <<"M","a","y">>,
       <<"J","u","n","e">>,
       <<"J","u","l","y">>,
       <<"A","u","g","u","s","t">>,
       <<"S","e","p","t","e","m","b","e","r">>,
       <<"O","c","t","o","b","e","r">>,
       <<"N","o","v","e","m","b","e","r">>,
       <<"D","e","c","e","m","b","e","r">>
    >>

\* a heading becomes the headline only when longer than this
HEADLINE_MIN_LEN == 20

\* an italic paragraph becomes the subheadline only when shorter than this
SUBHEADLINE_MAX_LEN == 200

\* \d and \s of the regular expressions, on ASCII text
Digits == {"0", "1", "2", "3", "4", "5", "6", "7", "8", "9"}

RegexSpace == {" ", "\t", "\n", "\r", "\f"}

\* s[i] of Python, or "" past the end
CharAt(s, i) == IF 0 <= i /\ i < Len(s) THEN s[i + 1] ELSE ""

\* the number of characters of class C in s from offset i on
RECURSIVE RunLength(_, _, _)
RunLength(s, i, C) ==
    IF CharAt(s, i) \in C THEN 1 + RunLength(s, i + 1, C) ELSE 0

\* the month names s starts with (at most one: none is a prefix of another)
MonthPrefix(s) == {k \in 1..Len(MONTHS) : StartsWith(s, MONTHS[k])}

\* re.match(r'^(January|...|December)\s+\d', s)
MatchesMonthDigit(s) ==
    \E k \in MonthPrefix(s) :
        LET i == Len(MONTHS[k])
            w == RunLength(s, i, RegexSpace)
        IN w >= 1 /\ CharAt(s, i + w) \in Digits

\* re.match(r'^((?:January|...|December)\s+\d{1,2},\s+\d{4})', s): the length
\* of group(1), or -1 without a match
DateMatchLen(s) ==
    IF MonthPrefix(s) = {} THEN -1
    ELSE LET k == CHOOSE m \in MonthPrefix(s) : TRUE
             i == Len(MONTHS[k])
             w1 == RunLength(s, i, RegexSpace)
             j == i + w1
             nd == IF CharAt(s, j) \in Digits /\ CharAt(s, j + 1) \in Digits
                      /\ CharAt(s, j + 2) = ","
                   THEN 2
                   ELSE IF CharAt(s, j) \in Digits /\ CharAt(s, j + 1) = ","
                   THEN 1
                   ELSE 0
             c == j + nd + 1
             w2 == RunLength(s, c, RegexSpace)
             y == c + w2
         IN IF /\ w1 >= 1
               /\ nd >= 1
               /\ w2 >= 1
               /\ \A q \in 0..3 : CharAt(s, y + q) \in Digits
            THEN y + 4
            ELSE -1

\* para.style.name if para.style else 'Normal'
NoStyle == "None"

StyleName(para) == IF para.style = NoStyle THEN "Normal" ELSE para.style

\* any(run.italic for run in para.runs if run.text.strip())
HasItalic(para) ==
    \E i \in 1..Len(para.runs) :
        Strip(para.runs[i].text) # <<>> /\ para.runs[i].italic

\* style_name == 'Title' or (style_name == 'Title2' and not result['headline'])
IsTitleCapture(style_name, headline) ==
    style_name = "Title" \/ (style_name = "Title2" /\ headline = <<>>)

\* not result['headline'] and style_name in ['Title', 'Heading 1'] and len(text) > 20
IsHeadingCapture(style_name, text, headline) ==
    /\ headline = <<>>
    /\ style_name \in {"Title", "Heading 1"}
    /\ Len(text) > HEADLINE_MIN_LEN

\* SubheadlineOpen without the test of body_paragraphs
SubheadlineOpenAnyBody(result) ==
    /\ result.headline # <<>>
    /\ result.subheadline = <<>>

\* result['headline'] and not result['subheadline'] and not result['body_paragraphs']
SubheadlineOpen(result) ==
    /\ result.headline # <<>>
    /\ result.subheadline = <<>>
    /\ result.body_paragraphs = <<>>

\* the italic rule of the subheadline capture
IsItalicSubheadline(para, text, headline) ==
    /\ HasItalic(para)
    /\ Len(text) < SUBHEADLINE_MAX_LEN
    /\ text # headline
    /\ ~MatchesMonthDigit(text)

\* the two nested tests that open an about section
IsAboutStart(style_name, text) ==
    /\ style_name = "Heading 1" \/ StartsWith(text, ABOUT_PREFIX)
    /\ StartsWith(text, ABOUT_PREFIX)

\* 'Trademarks' in text and (style_name == 'Heading 1' or text.startswith('Trademarks'))
IsTrademarksStart(style_name, text) ==
    /\ Contains(text, TRADEMARKS)
    /\ style_name = "Heading 1" \/ StartsWith(text, TRADEMARKS)

\* ContentTarget sending every paragraph outside trademarks to the body
ContentTargetBodyFirst(section, about_title) ==
    IF section = "trademarks" THEN "none" ELSE "body"

\* where a content paragraph goes: the tests on current_section after the
\* section transitions
ContentTarget(section, about_title) ==
    IF section = "trademarks" THEN "none"
    ELSE IF section = "about" /\ about_title # <<>> THEN "about"
    ELSE IF section = "body" THEN "body"
    ELSE "none"

\* the first url among links.values() with 'mouser.com' and '/new/' in it
RECURSIVE FirstProductUrl(_)
FirstProductUrl(links) ==
    IF links = <<>> THEN <<>>
    ELSE LET url == Head(links)[2]
         IN IF Contains(url, MOUSER_COM) /\ Contains(url, NEW_PATH)
            THEN clean_url(url)
            ELSE FirstProductUrl(Tail(links))

\* the body branch: date, product_link, body_paragraphs
AppendBody(result, para) ==
    LET para_html == get_paragraph_html(para)
        n == DateMatchLen(para_html)
        found == FirstProductUrl(extract_hyperlinks(para))
    IN [result EXCEPT
           !.date = IF n >= 0 /\ result.date = <<>>
                    THEN Slice(para_html, 0, n) ELSE @,
           !.product_link = IF result.product_link = <<>> /\ found # <<>>
                            THEN found ELSE @,
           !.body_paragraphs = Append(@, para_html)]

\* result['about_sections'][current_about_title].append(para_html)
AppendAbout(result, about_title, para) ==
    [result EXCEPT
        !.about_sections =
            DictSet(@, about_title,
                    Append(DictGet(@, about_title), get_paragraph_html(para)))]

\* The body of the loop over doc.paragraphs for one paragraph: st is the
\* record of result, current_section and current_about_title.  Every
\* `continue` of the source is a branch that returns here.
ProcessParagraph(st, para) ==
    LET text == Strip(para.text)
        style_name == StyleName(para)
        result == st.result
    IN IF text = <<>> THEN st
       ELSE IF text \in {MARKER_30_ENDASH, MARKER_30_DASH} THEN st
       ELSE IF IsTitleCapture(style_name, result.headline)
       THEN IF Contains(text, NEW_PRODUCT_ANNOUNCEMENT) THEN st
            ELSE [st EXCEPT !.result.headline = text]
       ELSE IF IsHeadingCapture(style_name, text, result.headline)
       THEN [st EXCEPT !.result.headline = text]
       ELSE IF SubheadlineOpen(result) /\ style_name = "Subtitle"
       THEN [st EXCEPT !.result.subheadline = text]
       ELSE IF SubheadlineOpen(result)
               /\ IsItalicSubheadline(para, text, result.headline)
       THEN [st EXCEPT !.result.subheadline = text]
       ELSE IF IsAboutStart(style_name, text)
       THEN [st EXCEPT !.current_section = "about",
                       !.current_about_title = text,
                       !.result.about_sections = DictSet(@, text, <<>>)]
       ELSE IF IsTrademarksStart(style_name, text)
       THEN [st EXCEPT !.current_section = "trademarks"]
       ELSE LET target == ContentTarget(st.current_section, st.current_about_title)
            IN IF target = "about"
               THEN [st EXCEPT
                        !.result = AppendAbout(@, st.current_about_title, para)]
               ELSE IF target = "body"
               THEN [st EXCEPT !.result = AppendBody(@, para)]
               ELSE st

\* re.sub(r'<[^>]+>', '', s): every '<', one or more characters other than
\* '>', and the '>' that follows are removed, scanning from the left
RECURSIVE StripTagsFrom(_, _)
StripTagsFrom(s, i) ==
    IF i >= Len(s) THEN <<>>
    ELSE LET n == RunLength(s, i + 1, {s[q] : q \in 1..Len(s)} \ {">"})
         IN IF s[i + 1] = "<" /\ n >= 1 /\ CharAt(s, i + 1 + n) = ">"
            THEN StripTagsFrom(s, i + n + 2)
            ELSE <<s[i + 1]>> \o StripTagsFrom(s, i + 1)

StripTags(s) == StripTagsFrom(s, 0)

\* s.rsplit(' ', 1)[0]: s up to its last space, all of s without one
RSplitSpaceHead(s) ==
    IF Contains(s, <<" ">>)
    THEN Slice(s, 0, CHOOSE i \in Occurrences(s, <<" ">>) :
                         \A j \in Occurrences(s, <<" ">>) : j <= i)
    ELSE s

META_DESCRIPTION_MAX == 160

META_KEYWORDS_MAX == 10

\* "..."
ELLIPSIS ==
    <<".",".",".">>

\* the meta_description of the post-pass
MetaDescription(body_paragraphs) ==
    IF body_paragraphs = <<>> THEN <<>>
    ELSE LET clean_text == StripTags(body_paragraphs[1])
         IN IF Len(clean_text) > META_DESCRIPTION_MAX
            THEN RSplitSpaceHead(Slice(clean_text, 0, META_DESCRIPTION_MAX))
                 \o ELLIPSIS
            ELSE clean_text

UPPER ==
    <<"A","B","C","D","E","F","G","H","I","J","K","L","M",
      "N","O","P","Q","R","S","T","U","V","W","X","Y","Z">>

LOWER ==
    <<"a","b","c","d","e","f","g","h","i","j","k","l","m",
      "n","o","p","q","r","s","t","u","v","w","x","y","z">>

UpperSet == {UPPER[k] : k \in 1..Len(UPPER)}

LowerSet == {LOWER[k] : k \in 1..Len(LOWER)}

\* \w and [a-zA-Z0-9-] on ASCII text
WordChars == UpperSet \cup LowerSet \cup Digits \cup {"_"}

KeywordChars == UpperSet \cup LowerSet \cup Digits \cup {"-"}

\* str.lower() on ASCII text
ToLower(s) ==
    [i \in 1..Len(s) |->
        IF s[i] \in UpperSet
        THEN LOWER[CHOOSE k \in 1..Len(UPPER) : UPPER[k] = s[i]]
        ELSE s[i]]

\* \b at offset p of s
WordBoundary(s, p) == (CharAt(s, p - 1) \in WordChars) # (CharAt(s, p) \in WordChars)

\* the length of the match of \b[A-Z][a-zA-Z0-9-]+\b at offset i, or 0
KeywordMatchLen(s, i) ==
    IF WordBoundary(s, i) /\ CharAt(s, i) \in UpperSet
    THEN LET r == RunLength(s, i + 1, KeywordChars)
             ends == {n \in 1..r : WordBoundary(s, i + 1 + n)}
         IN IF ends = {} THEN 0
            ELSE 1 + (CHOOSE n \in ends : \A q \in ends : q <= n)
    ELSE 0

\* re.findall(r'\b[A-Z][a-zA-Z0-9-]+\b', s)
RECURSIVE FindKeywords(_, _)
FindKeywords(s, i) ==
    IF i >= Len(s) THEN <<>>
    ELSE LET n == KeywordMatchLen(s, i)
         IN IF n > 0
            THEN <<Slice(s, i, i + n)>> \o FindKeywords(s, i + n)
            ELSE FindKeywords(s, i + 1)

\* sep.join(parts)
RECURSIVE Join(_, _)
Join(parts, sep) ==
    IF parts = <<>> THEN <<>>
    ELSE IF Len(parts) = 1 THEN parts[1]
    ELSE parts[1] \o sep \o Join(Tail(parts), sep)

\* the meta_keywords of the post-pass
MetaKeywords(headline) ==
    IF headline = <<>> THEN <<>>
    ELSE LET words == FindKeywords(headline, 0)
             first == IF Len(words) > META_KEYWORDS_MAX
                      THEN SubSeq(words, 1, META_KEYWORDS_MAX) ELSE words
         IN ToLower(Join(first, <<",", " ">>))

(***************************************************************************)
(* Spec: parse_docx over documents of at most MaxParas paragraphs, drawn   *)
(* one paragraph per step                                                  *)
(***************************************************************************)

MaxParas == 3

\* "Widget Launch"
TxtWidgetLaunch ==
    <<"W","i","d","g","e","t"," ","L","a","u","n","c","h">>

\* "Mouser Ships New Widget"
TxtMouserShips ==
    <<"M","o","u","s","e","r"," ","S","h","i","p","s"," ","N","e","w"," ","W","i","d","g","e",
    "t">>

\* "Now in stock"
TxtNowInStock ==
    <<"N","o","w"," ","i","n"," ","s","t","o","c","k">>

\* "About Mouser"
TxtAboutMouser ==
    <<"A","b","o","u","t"," ","M","o","u","s","e","r">>

\* "About Acme"
TxtAboutAcme ==
    <<"A","b","o","u","t"," ","A","c","m","e">>

\* "January 19, 2026 - Out now"
TxtDateline ==
    <<"J","a","n","u","a","r","y"," ","1","9",","," ","2","0","2","6"," ","-"," ","O","u","t",
    " ","n","o","w">>

\* "  "
TxtBlank ==
    <<" "," ">>

\* "Buy here"
TxtBuyHere ==
    <<"B","u","y"," ","h","e","r","e">>

\* "here"
TxtHere ==
    <<"h","e","r","e">>


Para(style, text, italic, links) ==
    [style |-> style, text |-> text,
     runs |-> <<[text |-> text, italic |-> italic]>>, links |-> links]

\* the paragraphs a document is drawn from
DocParagraphs ==
    {Para("Title", NEW_PRODUCT_ANNOUNCEMENT, FALSE, <<>>),
     Para("Title", TxtMouserShips, FALSE, <<>>),
     Para("Title", TxtWidgetLaunch, FALSE, <<>>),
     Para("Title2", TxtWidgetLaunch, FALSE, <<>>),
     Para("Heading 1", NEW_PRODUCT_ANNOUNCEMENT, FALSE, <<>>),
     Para("Heading 1", TxtMouserShips, FALSE, <<>>),
     Para("Heading 1", TxtWidgetLaunch, FALSE, <<>>),
     Para("Heading 1", TRADEMARKS, FALSE, <<>>),
     Para("Subtitle", TxtNowInStock, FALSE, <<>>),
     Para("Normal", TxtNowInStock, TRUE, <<>>),
     Para("Normal", TxtNowInStock, FALSE, <<>>),
     Para("Normal", TxtAboutMouser, FALSE, <<>>),
     Para("Normal", TxtAboutAcme, FALSE, <<>>),
     Para("Title", TxtAboutMouser, FALSE, <<>>),
     Para("Normal", TxtDateline, TRUE, <<>>),
     Para("Normal", TRADEMARKS, FALSE, <<>>),
     Para("Normal", MARKER_30_DASH, FALSE, <<>>),
     Para(NoStyle, TxtBlank, FALSE, <<>>),
     Para("Normal", TxtBuyHere, FALSE,
          <<[r_id |-> TRUE, target_ref |-> UrlTracked, text |-> TxtHere]>>)}

\* the result dict parse_docx starts from
EmptyResult ==
    [headline |-> <<>>, subheadline |-> <<>>, date |-> <<>>,
     body_paragraphs |-> <<>>, about_sections |-> <<>>, product_link |-> <<>>,
     meta_description |-> <<>>, meta_keywords |-> <<>>]

\* current_about_title = None
NoTitle == <<>>

DocxIdle ==
    /\ doc = <<>>
    /\ docx_result = EmptyResult
    /\ current_section = "body"
    /\ current_about_title = NoTitle
    /\ docx_pc = "idle"

DocxInit ==
    /\ doc = <<>>
    /\ docx_result = EmptyResult
    /\ current_section = "body"
    /\ current_about_title = NoTitle
    /\ docx_pc = "loop"

\* one iteration of `for para in doc.paragraphs`
ParseParagraph ==
    /\ docx_pc = "loop"
    /\ Len(doc) < MaxParas
    /\ \E para \in DocParagraphs :
           LET st == ProcessParagraph(
                         [result |-> docx_result,
                          current_section |-> current_section,
                          current_about_title |-> current_about_title], para)
           IN /\ doc' = Append(doc, para)
              /\ docx_result' = st.result
              /\ current_section' = st.current_section
              /\ current_about_title' = st.current_about_title
    /\ UNCHANGED <<docx_pc, notDocx>>

\* the end of the loop: the post-pass and the return
FinishParse ==
    /\ docx_pc = "loop"
    /\ docx_result' =
           [docx_result EXCEPT
               !.meta_description = MetaDescription(docx_result.body_paragraphs),
               !.meta_keywords = MetaKeywords(docx_result.headline)]
    /\ docx_pc' = "done"
    /\ UNCHANGED <<doc, current_section, current_about_title, notDocx>>

(***************************************************************************)
(* Claims about parse_docx                                                 *)
(***************************************************************************)

\* the paragraph processed last
LastPara == doc[Len(doc)]

\* C1: the headline is set at most once: once a paragraph has been captured
\* as headline, no later paragraph changes it.
C1_HeadlineSetOnce ==
    [][docx_result.headline # <<>>
           => docx_result'.headline = docx_result.headline]_vars

\* C2: the headline never contains the phrase "New Product Announcement".
C2_HeadlineNeverAnnouncement ==
    ~Contains(docx_result.headline, NEW_PRODUCT_ANNOUNCEMENT)

\* C3: the section state is monotonic: once current_section is 'about' or
\* 'trademarks' it never returns to 'body' and no later paragraph is appended
\* to body_paragraphs.
C3_SectionMonotonic ==
    [][current_section # "body"
           => /\ current_section' # "body"
              /\ docx_result'.body_paragraphs = docx_result.body_paragraphs]_vars

\* a document with body paragraphs whose about section has received a
\* paragraph after it was opened
C3_Witness ==
    /\ current_section = "about"
    /\ docx_result.body_paragraphs # <<>>
    /\ DictGet(docx_result.about_sections, current_about_title) # <<>>
    /\ StyleName(LastPara) = "Normal"
    /\ ~IsAboutStart("Normal", Strip(LastPara.text))

ParagraphStep == doc' # doc

NewPara == doc'[Len(doc')]

NewText == Strip(NewPara.text)

\* the titles of about_sections in their order
SectionTitles(sections) == [i \in 1..Len(sections) |-> sections[i][1]]

\* no content list changed: body_paragraphs and about_sections are as before
NoContentAdded ==
    /\ docx_result'.body_paragraphs = docx_result.body_paragraphs
    /\ docx_result'.about_sections = docx_result.about_sections

\* C15: a paragraph styled 'Heading 1', or one whose text contains
\* "Trademarks" with a heading style or a "Trademarks" prefix, moves
\* current_section to 'trademarks' and is appended neither to
\* body_paragraphs nor to an about section.
C15_HeadingMovesToTrademarks ==
    [][(/\ ParagraphStep
        /\ \/ StyleName(NewPara) = "Heading 1"
           \/ /\ Contains(NewText, TRADEMARKS)
              /\ \/ StyleName(NewPara) = "Heading 1"
                 \/ StartsWith(NewText, TRADEMARKS))
           => /\ current_section' = "trademarks"
              /\ NoContentAdded]_vars

\* C16: the section moves only body -> about, body -> trademarks and
\* about -> trademarks; once it is 'trademarks' it stays so and no later
\* paragraph adds to body_paragraphs or to about_sections.
C16_TrademarksIsFinal ==
    [][/\ current_section' # current_section
              => <<current_section, current_section'>>
                     \in {<<"body", "about">>, <<"body", "trademarks">>,
                          <<"about", "trademarks">>}
       /\ current_section = "trademarks"
              => /\ current_section' = "trademarks"
                 /\ NoContentAdded]_vars

\* C17: a paragraph whose text starts with "About " opens an about section
\* titled by that text, is appended to no content list and captured in no
\* other field, and the titles keep the order in which they were first seen.
C17_AboutOpensSection ==
    [][(ParagraphStep /\ StartsWith(NewText, ABOUT_PREFIX))
           => /\ current_section' = "about"
              /\ current_about_title' = NewText
              /\ DictHas(docx_result'.about_sections, NewText)
              /\ SectionTitles(docx_result'.about_sections)
                     = IF DictHas(docx_result.about_sections, NewText)
                       THEN SectionTitles(docx_result.about_sections)
                       ELSE Append(SectionTitles(docx_result.about_sections),
                                   NewText)
              /\ \A i \in 1..Len(docx_result.about_sections) :
                     docx_result.about_sections[i][1] # NewText
                         => docx_result'.about_sections[i]
                                = docx_result.about_sections[i]
              /\ Len(DictGet(docx_result'.about_sections, NewText))
                     <= (IF DictHas(docx_result.about_sections, NewText)
                         THEN Len(DictGet(docx_result.about_sections, NewText))
                         ELSE 0)
              /\ docx_result'.body_paragraphs = docx_result.body_paragraphs
              /\ docx_result'.headline = docx_result.headline
              /\ docx_result'.subheadline = docx_result.subheadline
              /\ docx_result'.date = docx_result.date
              /\ docx_result'.product_link = docx_result.product_link]_vars

\* s is the beginning of t
IsPrefix(s, t) == Len(s) <= Len(t) /\ SubSeq(t, 1, Len(s)) = s

\* C20: what was appended to an about section stays under its title: every
\* section keeps its title and the paragraphs it had, in every later step.
C20_AboutContentKept ==
    [][\A i \in 1..Len(docx_result.about_sections) :
           /\ DictHas(docx_result'.about_sections,
                      docx_result.about_sections[i][1])
           /\ IsPrefix(docx_result.about_sections[i][2],
                       DictGet(docx_result'.about_sections,
                               docx_result.about_sections[i][1]))]_vars

(***************************************************************************)
(* generate_month_folder                                                   *)
(***************************************************************************)

DIGIT_CHARS == <<"0", "1", "2", "3", "4", "5", "6", "7", "8", "9">>

DigitVal(c) == (CHOOSE k \in 1..Len(DIGIT_CHARS) : DIGIT_CHARS[k] = c) - 1

\* int(s) for a string of decimal digits
RECURSIVE ParseInt(_)
ParseInt(s) ==
    IF s = <<>> THEN 0
    ELSE 10 * ParseInt(Slice(s, 0, Len(s) - 1)) + DigitVal(s[Len(s)])

\* str(n) for n >= 0
RECURSIVE IntToStr(_)
IntToStr(n) ==
    IF n < 10 THEN <<DIGIT_CHARS[n + 1]>>
    ELSE IntToStr(n \div 10) \o <<DIGIT_CHARS[(n % 10) + 1]>>

\* f"{n:02d}" for n >= 0
Pad2(n) == IF n < 10 THEN <<"0">> \o IntToStr(n) ELSE IntToStr(n)

\* " - Mouser"
MOUSER_SUFFIX ==
    <<" ","-"," ","M","o","u","s","e","r">>

\* f"{date_obj.year}-{date_obj.month:02d} - Mouser"
FormatMonthFolder(year, month) ==
    IntToStr(year) \o <<"-">> \o Pad2(month) \o MOUSER_SUFFIX

IsLeapYear(y) == y % 4 = 0 /\ (y % 100 # 0 \/ y % 400 = 0)

\* the days of month m of year y, as datetime has them
DaysInMonth(y, m) ==
    IF m = 2 THEN (IF IsLeapYear(y) THEN 29 ELSE 28)
    ELSE IF m \in {4, 6, 9, 11} THEN 30
    ELSE 31

\* the lowest year of datetime
MINYEAR == 1

\* the %B of strptime: the month names s starts with, letter case ignored
MonthPrefixAnyCase(s) ==
    {k \in 1..Len(MONTHS) :
        /\ Len(MONTHS[k]) <= Len(s)
        /\ ToLower(Slice(s, 0, Len(MONTHS[k]))) = ToLower(MONTHS[k])}

\* datetime.strptime(s, "%B %d, %Y"): [ok, year, month, day]; ok is FALSE
\* where strptime raises ValueError.  The format is matched as the regular
\* expression  month \s+ (3[0-1]|[1-2]\d|0[1-9]|[1-9]| [1-9]) , \s+ \d\d\d\d
\* against the whole string, and the fields must make a date.
StrpTime(s) ==
    LET bad == [ok |-> FALSE, year |-> 0, month |-> 0, day |-> 0]
    IN IF MonthPrefixAnyCase(s) = {} THEN bad
       ELSE LET k == CHOOSE m \in MonthPrefixAnyCase(s) : TRUE
                i == Len(MONTHS[k])
                w1 == RunLength(s, i, RegexSpace)
                j == i + w1
                nd == IF CharAt(s, j) \in Digits /\ CharAt(s, j + 1) \in Digits
                         /\ CharAt(s, j + 2) = ","
                      THEN 2
                      ELSE IF CharAt(s, j) \in Digits /\ CharAt(s, j + 1) = ","
                      THEN 1
                      ELSE 0
                day == ParseInt(Slice(s, j, j + nd))
                c == j + nd + 1
                w2 == RunLength(s, c, RegexSpace)
                y == c + w2
                year == ParseInt(Slice(s, y, y + 4))
            IN IF /\ w1 >= 1
                  /\ nd >= 1
                  /\ 1 <= day /\ day <= 31
                  /\ w2 >= 1
                  /\ \A q \in 0..3 : CharAt(s, y + q) \in Digits
                  /\ Len(s) = y + 4
                  /\ year >= MINYEAR
                  /\ day <= DaysInMonth(year, k)
               THEN [ok |-> TRUE, year |-> year, month |-> k, day |-> day]
               ELSE bad

\* the label of the current month whatever the date string is
MonthFolderOfNow(date_string, time) ==
    FormatMonthFolder(time.year, time.month)

\* generate_month_folder(date_str) when datetime.now() is time
generate_month_folder(date_string, time) ==
    LET date_obj == StrpTime(date_string)
    IN IF date_string # <<>> /\ date_obj.ok
       THEN FormatMonthFolder(date_obj.year, date_obj.month)
       ELSE FormatMonthFolder(time.year, time.month)

(***************************************************************************)
(* SpecMonth: generate_month_folder on the dates parse_docx can capture    *)
(***************************************************************************)

\* the parts a date text is written from: the month, the white space after
\* it, the day as written and the year as written
DateParts ==
    [month : {1, 2, 4, 12},
     gap : {<<" ">>, <<" ", " ">>},
     day : {<<"1">>, <<"9">>, <<"0", "5">>, <<"1", "9">>, <<"2", "8">>,
            <<"2", "9">>, <<"3", "0">>, <<"3", "1">>, <<"0">>, <<"0", "0">>,
            <<"3", "2">>, <<"4", "5">>},
     year : {<<"2", "0", "2", "6">>, <<"2", "0", "2", "4">>,
             <<"1", "9", "0", "0">>, <<"0", "0", "0", "1">>,
             <<"0", "0", "0", "0">>}]

\* no date was extracted: result['date'] = ''
NoDate == [month |-> 0, gap |-> <<>>, day |-> <<>>, year |-> <<>>]

\* the text of a date: month name, gap, day, comma, space, year
DateText(p) ==
    IF p = NoDate THEN <<>>
    ELSE MONTHS[p.month] \o p.gap \o p.day \o <<",", " ">> \o p.year

\* the values datetime.now() takes
Nows == {[year |-> 2026, month |-> 11], [year |-> 2027, month |-> 3]}

MonthIdle ==
    /\ date_parts = NoDate
    /\ date_str = <<>>
    /\ now = [year |-> 2026, month |-> 11]
    /\ month_folder = <<>>
    /\ month_pc = "idle"

MonthInit ==
    /\ date_parts \in DateParts \cup {NoDate}
    /\ date_str = DateText(date_parts)
    /\ now \in Nows
    /\ month_folder = <<>>
    /\ month_pc = "start"

\* one call of generate_month_folder(date_str)
GenerateMonthFolder ==
    /\ month_pc = "start"
    /\ month_folder' = generate_month_folder(date_str, now)
    /\ month_pc' = "done"
    /\ UNCHANGED <<date_parts, date_str, now, notMonth>>

(***************************************************************************)
(* Claims about generate_month_folder                                      *)
(***************************************************************************)

\* the date text is one the date pattern of parse_docx captures whole
IsCapturedDate(s) == s # <<>> /\ DateMatchLen(s) = Len(s)

\* the year, month and day the parts of a date text were written from
PartsYear == ParseInt(date_parts.year)

PartsDay == ParseInt(date_parts.day)

\* the parts name a day of the calendar
PartsOnCalendar ==
    /\ date_parts # NoDate
    /\ PartsYear >= 1
    /\ PartsDay >= 1
    /\ PartsDay <= DaysInMonth(PartsYear, date_parts.month)

SIGNIFICAND_BITS == 53

\* config['image_settings']['output_width']
OUTPUT_WIDTH == 336

\* the binary digits of n >= 0, most significant first; none for 0
RECURSIVE BitsOfInt(_)
BitsOfInt(n) == IF n = 0 THEN <<>> ELSE Append(BitsOfInt(n \div 2), n % 2)

\* the integer written by bits[1..i]
RECURSIVE IntOfBitsUpTo(_, _)
IntOfBitsUpTo(bits, i) ==
    IF i = 0 THEN 0 ELSE 2 * IntOfBitsUpTo(bits, i - 1) + bits[i]

IntOfBits(bits) == IntOfBitsUpTo(bits, Len(bits))

\* bits with zeros in front, n digits long
PadBits(bits, n) == [q \in 1..(n - Len(bits)) |-> 0] \o bits

RECURSIVE Pow2(_)
Pow2(n) == IF n = 0 THEN 1 ELSE 2 * Pow2(n - 1)

\* the next n binary digits of r / b for 0 <= r < b, and the remainder left;
\* long division, eight digits at a step
RECURSIVE FracBits(_, _, _)
FracBits(r, b, n) ==
    IF n <= 8
    THEN [bits |-> PadBits(BitsOfInt((r * Pow2(n)) \div b), n),
          rem |-> (r * Pow2(n)) % b]
    ELSE LET rest == FracBits((r * 256) % b, b, n - 8)
         IN [bits |-> PadBits(BitsOfInt((r * 256) \div b), 8) \o rest.bits,
             rem |-> rest.rem]

\* the zero digits r / b starts with, for 0 < r < b
RECURSIVE LeadingZeros(_, _)
LeadingZeros(r, b) ==
    IF 2 * r >= b THEN 0 ELSE 1 + LeadingZeros(2 * r, b)

RECURSIVE ShiftRemainder(_, _, _)
ShiftRemainder(r, b, z) ==
    IF z = 0 THEN r ELSE ShiftRemainder((2 * r) % b, b, z - 1)

\* bits + 1, one bit longer when every bit is 1
IncBits(bits) ==
    IF \A q \in 1..Len(bits) : bits[q] = 1
    THEN <<1>> \o [q \in 1..Len(bits) |-> 0]
    ELSE LET z == CHOOSE q \in 1..Len(bits) :
                      /\ bits[q] = 0
                      /\ \A t \in (q + 1)..Len(bits) : bits[t] = 1
         IN [q \in 1..Len(bits) |->
                IF q < z THEN bits[q] ELSE IF q = z THEN 1 ELSE 0]

\* Round to nearest, ties to even: all is at least 53 bits whose last bit
\* weighs 2^exp, sticky says whether non-zero digits follow all.
RoundToDouble(all, exp, sticky) ==
    LET d == Len(all) - SIGNIFICAND_BITS
        kept == Slice(all, 0, SIGNIFICAND_BITS)
        dropped == Slice(all, SIGNIFICAND_BITS, Len(all))
        half == d >= 1 /\ dropped[1] = 1
        more == sticky \/ \E q \in 2..d : dropped[q] = 1
        up == half /\ (more \/ kept[SIGNIFICAND_BITS] = 1)
        inc == IncBits(kept)
    IN IF ~up THEN [bits |-> kept, exp |-> exp + d]
       ELSE IF Len(inc) > SIGNIFICAND_BITS
       THEN [bits |-> Slice(inc, 0, SIGNIFICAND_BITS), exp |-> exp + d + 1]
       ELSE [bits |-> inc, exp |-> exp + d]

\* a / b as a double, for integers a > 0 and b > 0
FloatDiv(a, b) ==
    LET whole == BitsOfInt(a \div b)
        r == a % b
    IN IF whole # <<>>
       THEN LET n == (SIGNIFICAND_BITS + 1) - Len(whole)
                f == FracBits(r, b, n)
            IN RoundToDouble(whole \o f.bits, -n, f.rem # 0)
       ELSE LET z == LeadingZeros(r, b)
                f == FracBits(ShiftRemainder(r, b, z), b, SIGNIFICAND_BITS + 1)
            IN RoundToDouble(f.bits, -(z + SIGNIFICAND_BITS + 1), f.rem # 0)

\* bits[1..i] * h + carry for an integer h >= 1, as bits; long
\* multiplication, eight digits at a step
RECURSIVE MulBitsUpTo(_, _, _, _)
MulBitsUpTo(bits, i, h, carry) ==
    IF i = 0 THEN BitsOfInt(carry)
    ELSE LET k == IF i < 8 THEN i ELSE 8
             v == IntOfBits(Slice(bits, i - k, i)) * h + carry
         IN MulBitsUpTo(bits, i - k, h, v \div Pow2(k))
                \o PadBits(BitsOfInt(v % Pow2(k)), k)

\* bits * h + carry, as bits
MulBits(bits, h, carry) == MulBitsUpTo(bits, Len(bits), h, carry)

\* h * x as a double, for an integer h >= 1 and a double x
FloatMulInt(h, x) == RoundToDouble(MulBits(x.bits, h, 0), x.exp, FALSE)

\* int(x) for a double x > 0: the fraction is cut off
FloatToInt(x) ==
    IF x.exp >= 0 THEN IntOfBits(x.bits \o [q \in 1..x.exp |-> 0])
    ELSE IF SIGNIFICAND_BITS + x.exp <= 0 THEN 0
    ELSE IntOfBits(Slice(x.bits, 0, SIGNIFICAND_BITS + x.exp))

\* ratio = target_width / img.width; new_height = int(img.height * ratio)
NewHeight(image, target_width) ==
    FloatToInt(FloatMulInt(image.height, FloatDiv(target_width, image.width)))

\* "height and width must be > 0"
ERR_BAD_SIZE ==
    <<"h","e","i","g","h","t"," ","a","n","d"," ","w","i","d","t","h"," ","m","u","s","t"," ",
    "b","e"," ",">"," ","0">>

\* "cannot identify image file"
ERR_CANNOT_IDENTIFY ==
    <<"c","a","n","n","o","t"," ","i","d","e","n","t","i","f","y"," ","i","m","a","g","e"," ",
    "f","i","l","e">>

\* the modes flattened onto a white background
ALPHA_MODES == {"RGBA", "LA", "P"}

\* convert_png_to_jpg(png_path, output_path, target_width): the result dict
\* and what is saved at output_path.  codec_ok says whether Image.open and
\* save succeed; resize raises for a height below 1.  Any exception is caught
\* and reported in result['error'].
ConvertPngToJpg(image, target_width, codec_ok) ==
    LET new_height == NewHeight(image, target_width)
    IN IF codec_ok /\ new_height >= 1
       THEN [success |-> TRUE,
             dimensions |-> <<target_width, new_height>>,
             error |-> <<>>,
             saved |-> [format |-> "JPEG", mode |-> "RGB",
                        flattened |-> image.mode \in ALPHA_MODES,
                        size |-> <<target_width, new_height>>]]
       ELSE [success |-> FALSE,
             dimensions |-> <<>>,
             error |-> IF codec_ok THEN ERR_BAD_SIZE ELSE ERR_CANNOT_IDENTIFY,
             saved |-> <<>>]

(***************************************************************************)
(* SpecImage: convert_png_to_jpg on images up to MaxDim by MaxDim          *)
(***************************************************************************)

MaxDim == 48

ImageModes == {"RGB", "RGBA", "P", "L"}

\* img.width: every width up to MaxDim and two wider than the target
ImageWidths == 1..MaxDim \cup {400, 700}

ImageIdle ==
    /\ img = [width |-> 1, height |-> 1, mode |-> "RGB"]
    /\ img_result = <<>>
    /\ img_pc = "idle"

ImageInit ==
    /\ img \in [width : ImageWidths, height : 1..MaxDim, mode : ImageModes]
    /\ img_result = <<>>
    /\ img_pc = "start"

\* one call of convert_png_to_jpg with the configured width
ConvertImage ==
    /\ img_pc = "start"
    /\ \E codec_ok \in BOOLEAN :
           img_result' = ConvertPngToJpg(img, OUTPUT_WIDTH, codec_ok)
    /\ img_pc' = "done"
    /\ UNCHANGED <<img, notImage>>

(***************************************************************************)
(* Claims about convert_png_to_jpg                                         *)
(***************************************************************************)

\* round(n / d) for n >= 0 and d > 0, a tie going to the even integer
RoundDiv(n, d) ==
    LET q == n \div d
        r == n % d
    IN IF 2 * r < d THEN q
       ELSE IF 2 * r > d THEN q + 1
       ELSE IF q % 2 = 0 THEN q ELSE q + 1

\* C9: a successful conversion reports width 336 and height
\* round(H * 336 / W).
C9_HeightIsRounded ==
    (img_pc = "done" /\ img_result.success)
        => img_result.dimensions =
               <<336, RoundDiv(img.height * 336, img.width)>>

(***************************************************************************)
(* find_files and process_press_release                                    *)
(***************************************************************************)

\* ".docx"
EXT_DOCX ==
    <<".","d","o","c","x">>

\* ".png"
EXT_PNG ==
    <<".","p","n","g">>

\* ".pdf"
EXT_PDF ==
    <<".","p","d","f">>

\* ".jpg"
EXT_JPG ==
    <<".","j","p","g">>

\* ".html"
EXT_HTML ==
    <<".","h","t","m","l">>

\* "_email.html"
EMAIL_HTML ==
    <<"_","e","m","a","i","l",".","h","t","m","l">>

\* "instruction"
INSTRUCTION ==
    <<"i","n","s","t","r","u","c","t","i","o","n">>

\* "order"
ORDER ==
    <<"o","r","d","e","r">>

\* "publicrelations"
PUBLICRELATIONS ==
    <<"p","u","b","l","i","c","r","e","l","a","t","i","o","n","s">>

\* "Word document (.docx)"
LABEL_DOCX ==
    <<"W","o","r","d"," ","d","o","c","u","m","e","n","t"," ","(",".","d","o","c","x",")">>

\* "PNG image (.png)"
LABEL_PNG ==
    <<"P","N","G"," ","i","m","a","g","e"," ","(",".","p","n","g",")">>

\* "PDF file (.pdf)"
LABEL_PDF ==
    <<"P","D","F"," ","f","i","l","e"," ","(",".","p","d","f",")">>

\* "Missing files: "
MISSING_PREFIX ==
    <<"M","i","s","s","i","n","g"," ","f","i","l","e","s",":"," ">>

\* ", "
COMMA_SPACE ==
    <<","," ">>

\* "Folder not found: "
FOLDER_NOT_FOUND ==
    <<"F","o","l","d","e","r"," ","n","o","t"," ","f","o","u","n","d",":"," ">>

\* "Failed to parse Word document: "
PARSE_FAILED ==
    <<"F","a","i","l","e","d"," ","t","o"," ","p","a","r","s","e"," ","W","o","r","d"," ","d",
    "o","c","u","m","e","n","t",":"," ">>

\* "Failed to process image: "
IMAGE_FAILED ==
    <<"F","a","i","l","e","d"," ","t","o"," ","p","r","o","c","e","s","s"," ","i","m","a","g",
    "e",":"," ">>

\* "Failed to generate HTML: "
HTML_FAILED ==
    <<"F","a","i","l","e","d"," ","t","o"," ","g","e","n","e","r","a","t","e"," ","H","T","M",
    "L",":"," ">>

\* "https://pr.ezwire.com/Mouser/"
BASE_URL_HEAD ==
    <<"h","t","t","p","s",":","/","/","p","r",".","e","z","w","i","r","e",".","c","o","m","/",
    "M","o","u","s","e","r","/">>

\* "%20"
PERCENT_20 ==
    <<"%","2","0">>

\* s.endswith(p)
EndsWith(s, p) ==
    Len(p) <= Len(s) /\ Slice(s, Len(s) - Len(p), Len(s)) = p

\* s.replace(c, r) for a character c
RECURSIVE Replace(_, _, _)
Replace(s, c, r) ==
    IF s = <<>> THEN <<>>
    ELSE (IF Head(s) = c THEN r ELSE <<Head(s)>>) \o Replace(Tail(s), c, r)

\* os.path.basename(path): what follows the last "/"
Basename(path) ==
    LET slashes == {i \in 1..Len(path) : path[i] = "/"}
    IN IF slashes = {} THEN path
       ELSE Slice(path, CHOOSE i \in slashes : \A j \in slashes : j <= i,
                  Len(path))

\* os.path.join(a, b) for a relative b and a non-empty a without a final "/"
PathJoin(a, b) == a \o <<"/">> \o b

\* os.path.splitext(name)[0]: name up to its last ".", unless only dots
\* come before it
SplitExtRoot(name) ==
    LET dots == {i \in 1..Len(name) :
                    /\ name[i] = "."
                    /\ \E j \in 1..(i - 1) : name[j] # "."}
    IN IF dots = {} THEN name
       ELSE Slice(name, 0, (CHOOSE i \in dots : \A j \in dots : j <= i) - 1)

\* None for a path
NoFile == <<>>

\* the loop step without the preference for 'publicrelations': the first
\* candidate of a kind is kept
FindFilesStepFirstKept(found, folder, entry) ==
    LET filepath == PathJoin(folder, entry.name)
        lower == ToLower(entry.name)
    IN IF ~entry.is_file THEN found
       ELSE IF EndsWith(lower, EXT_DOCX) /\ ~Contains(lower, INSTRUCTION)
       THEN (IF found.docx = NoFile
             THEN [found EXCEPT !.docx = filepath]
             ELSE found)
       ELSE IF EndsWith(lower, EXT_PNG)
       THEN [found EXCEPT !.png = filepath]
       ELSE IF EndsWith(lower, EXT_PDF)
       THEN (IF /\ ~Contains(lower, INSTRUCTION)
                /\ ~Contains(lower, ORDER)
                /\ found.pdf = NoFile
             THEN [found EXCEPT !.pdf = filepath]
             ELSE found)
       ELSE found

\* one step of the loop of find_files: entry is [name, is_file]
FindFilesStep(found, folder, entry) ==
    LET filepath == PathJoin(folder, entry.name)
        lower == ToLower(entry.name)
    IN IF ~entry.is_file THEN found
       ELSE IF EndsWith(lower, EXT_DOCX) /\ ~Contains(lower, INSTRUCTION)
       THEN (IF found.docx = NoFile \/ Contains(lower, PUBLICRELATIONS)
             THEN [found EXCEPT !.docx = filepath]
             ELSE found)
       ELSE IF EndsWith(lower, EXT_PNG)
       THEN [found EXCEPT !.png = filepath]
       ELSE IF EndsWith(lower, EXT_PDF)
       THEN (IF /\ ~Contains(lower, INSTRUCTION)
                /\ ~Contains(lower, ORDER)
                /\ (found.pdf = NoFile \/ Contains(lower, PUBLICRELATIONS))
             THEN [found EXCEPT !.pdf = filepath]
             ELSE found)
       ELSE found

RECURSIVE FindFilesFrom(_, _, _)
FindFilesFrom(found, folder, entries) ==
    IF entries = <<>> THEN found
    ELSE FindFilesFrom(FindFilesStep(found, folder, Head(entries)), folder,
                       Tail(entries))

\* find_files(folder_path) when os.listdir gives entries
find_files(folder, entries) ==
    FindFilesFrom([docx |-> NoFile, png |-> NoFile, pdf |-> NoFile,
                   folder_name |-> Basename(folder)],
                  folder, entries)

\* every label, whatever is missing
MissingLabelsAll(found) ==
    IF found.docx = NoFile \/ found.png = NoFile \/ found.pdf = NoFile
    THEN <<LABEL_DOCX, LABEL_PNG, LABEL_PDF>>
    ELSE <<>>

\* the list missing of process_press_release
MissingLabels(found) ==
    (IF found.docx = NoFile THEN <<LABEL_DOCX>> ELSE <<>>)
        \o (IF found.png = NoFile THEN <<LABEL_PNG>> ELSE <<>>)
        \o (IF found.pdf = NoFile THEN <<LABEL_PDF>> ELSE <<>>)

\* the steps whose exceptions only the first try block catches
HandledParseOnly(step) == step = "parse"

\* the steps that run inside a try block with except Exception
Handled(step) == step \in {"parse", "web_html", "email_html"}

\* the file names process_press_release derives
JpgFilename(found) == SplitExtRoot(Basename(found.png)) \o EXT_JPG

HtmlFilename(folder_name) == folder_name \o EXT_HTML

EmailFilename(folder_name) == folder_name \o EMAIL_HTML

\* the manifest with the originals ahead of the generated files
FilesToUploadOriginalsFirst(folder, folder_name, found) ==
    <<[local_path |-> found.png, remote_filename |-> Basename(found.png)],
      [local_path |-> found.pdf, remote_filename |-> Basename(found.pdf)],
      [local_path |-> PathJoin(folder, HtmlFilename(folder_name)),
       remote_filename |-> HtmlFilename(folder_name)],
      [local_path |-> PathJoin(folder, EmailFilename(folder_name)),
       remote_filename |-> EmailFilename(folder_name)],
      [local_path |-> PathJoin(folder, JpgFilename(found)),
       remote_filename |-> JpgFilename(found)]>>

\* result['files_to_upload']
FilesToUpload(folder, folder_name, found) ==
    <<[local_path |-> PathJoin(folder, HtmlFilename(folder_name)),
       remote_filename |-> HtmlFilename(folder_name)],
      [local_path |-> PathJoin(folder, EmailFilename(folder_name)),
       remote_filename |-> EmailFilename(folder_name)],
      [local_path |-> PathJoin(folder, JpgFilename(found)),
       remote_filename |-> JpgFilename(found)],
      [local_path |-> found.png, remote_filename |-> Basename(found.png)],
      [local_path |-> found.pdf, remote_filename |-> Basename(found.pdf)]>>

\* config['urls']['base_url'].format(month_folder=..., folder_name=...)
BaseUrl(month, folder_name) ==
    BASE_URL_HEAD \o Replace(month, " ", PERCENT_20) \o <<"/">>
        \o Replace(folder_name, " ", PERCENT_20) \o <<"/">>

\* result['preview_urls']
PreviewUrls(month, folder_name) ==
    <<<<"html", BaseUrl(month, folder_name) \o HtmlFilename(folder_name)>>,
      <<"email", BaseUrl(month, folder_name) \o EmailFilename(folder_name)>>>>

(***************************************************************************)
(* SpecProcess: process_press_release on folders of up to MaxFiles entries *)
(***************************************************************************)

MaxFiles == 4

\* "report.docx"
FileReportDocx ==
    <<"r","e","p","o","r","t",".","d","o","c","x">>

\* "PublicRelations.docx"
FilePublicRelationsDocx ==
    <<"P","u","b","l","i","c","R","e","l","a","t","i","o","n","s",".","d","o","c","x">>

\* "Instructions.docx"
FileInstructionsDocx ==
    <<"I","n","s","t","r","u","c","t","i","o","n","s",".","d","o","c","x">>

\* "photo.png"
FilePhotoPng ==
    <<"p","h","o","t","o",".","p","n","g">>

\* "Photo2.PNG"
FilePhoto2Png ==
    <<"P","h","o","t","o","2",".","P","N","G">>

\* "spec.pdf"
FileSpecPdf ==
    <<"s","p","e","c",".","p","d","f">>

\* "OrderForm.pdf"
FileOrderFormPdf ==
    <<"O","r","d","e","r","F","o","r","m",".","p","d","f">>

\* "photo.jpg"
FilePhotoJpg ==
    <<"p","h","o","t","o",".","j","p","g">>

\* "old.png"
DirOldPng ==
    <<"o","l","d",".","p","n","g">>

\* "/in/Q1 PR"
FolderQ1 ==
    <<"/","i","n","/","Q","1"," ","P","R">>

\* "/in/widget"
FolderWidget ==
    <<"/","i","n","/","w","i","d","g","e","t">>

\* "Package not found"
ErrPackageNotFound ==
    <<"P","a","c","k","a","g","e"," ","n","o","t"," ","f","o","u","n","d">>

\* "template error"
ErrTemplate ==
    <<"t","e","m","p","l","a","t","e"," ","e","r","r","o","r">>

\* "Permission denied"
ErrPermission ==
    <<"P","e","r","m","i","s","s","i","o","n"," ","d","e","n","i","e","d">>

\* "January 19, 2026"
DateJanuary19 ==
    <<"J","a","n","u","a","r","y"," ","1","9",","," ","2","0","2","6">>

\* the entries a folder is filled from: name and os.path.isfile
Catalogue ==
    {[name |-> FileReportDocx, is_file |-> TRUE],
     [name |-> FilePublicRelationsDocx, is_file |-> TRUE],
     [name |-> FileInstructionsDocx, is_file |-> TRUE],
     [name |-> FilePhotoPng, is_file |-> TRUE],
     [name |-> FilePhoto2Png, is_file |-> TRUE],
     [name |-> FileSpecPdf, is_file |-> TRUE],
     [name |-> FileOrderFormPdf, is_file |-> TRUE],
     [name |-> FilePhotoJpg, is_file |-> TRUE],
     [name |-> DirOldPng, is_file |-> FALSE]}

\* os.listdir: up to MaxFiles entries, none twice, in any order
Listings ==
    {l \in SeqsUpTo(Catalogue, MaxFiles) :
        \A i, j \in 1..Len(l) : i # j => l[i] # l[j]}

FolderPaths == {FolderQ1, FolderWidget}

\* the folder's entries by name: "original" for a file that was there,
\* "directory" for a directory
InitialFs(entries) ==
    [i \in 1..Len(entries) |->
        <<entries[i].name,
          IF entries[i].is_file THEN "original" ELSE "directory">>]

\* what parse_docx returns, as far as process_press_release reads it
Contents ==
    {[EmptyResult EXCEPT !.date = dt] :
        dt \in {<<>>, DateJanuary19}}

\* the images the PNG file holds
ProcImages ==
    {[width |-> 672, height |-> 200, mode |-> "RGBA"],
     [width |-> 700, height |-> 1, mode |-> "P"]}

\* result as process_press_release starts with it
EmptyProcResult ==
    [success |-> FALSE, folder_name |-> <<>>, files_to_upload |-> <<>>,
     preview_urls |-> <<>>, errors |-> <<>>, month_folder |-> <<>>]

NoFiles ==
    [docx |-> NoFile, png |-> NoFile, pdf |-> NoFile, folder_name |-> <<>>]

ProcIdle ==
    /\ folder_path = <<>>
    /\ folder_exists = FALSE
    /\ listing = <<>>
    /\ fs = <<>>
    /\ files = NoFiles
    /\ content = EmptyResult
    /\ image_dimensions = <<>>
    /\ proc_result = EmptyProcResult
    /\ failure = "none"
    /\ proc_pc = "idle"

ProcInit ==
    /\ folder_path \in FolderPaths
    /\ folder_exists \in BOOLEAN
    /\ listing \in Listings
    /\ ~folder_exists => listing = <<>>
    /\ fs = InitialFs(listing)
    /\ files = NoFiles
    /\ content = EmptyResult
    /\ image_dimensions = <<>>
    /\ proc_result = EmptyProcResult
    /\ failure = "none"
    /\ proc_pc = "start"

\* an exception e at step: caught, it is appended to result['errors'] after
\* prefix and result is returned; uncaught, it leaves the call
Fail(step, prefix, e) ==
    /\ failure' = step
    /\ IF Handled(step)
       THEN /\ proc_result' =
                   [proc_result EXCEPT !.errors = Append(@, prefix \o e)]
            /\ proc_pc' = "done"
       ELSE /\ proc_result' = proc_result
            /\ proc_pc' = "raised"

\* an early return with an error message
ReturnError(step, message) ==
    /\ failure' = step
    /\ proc_result' = [proc_result EXCEPT !.errors = Append(@, message)]
    /\ proc_pc' = "done"

\* if not os.path.isdir(folder_path) ... result['folder_name'] = folder_name
ValidateFolder ==
    /\ proc_pc = "start"
    /\ IF ~folder_exists
       THEN ReturnError("folder", FOLDER_NOT_FOUND \o folder_path)
       ELSE /\ proc_result' =
                   [proc_result EXCEPT !.folder_name = Basename(folder_path)]
            /\ proc_pc' = "find"
            /\ UNCHANGED failure
    /\ UNCHANGED <<folder_path, folder_exists, listing, fs, files, content,
                   image_dimensions, notProc>>

\* files = find_files(folder_path) and the check of missing
FindRequiredFiles ==
    /\ proc_pc = "find"
    /\ files' = find_files(folder_path, listing)
    /\ IF MissingLabels(files') # <<>>
       THEN ReturnError("missing",
                        MISSING_PREFIX
                            \o Join(MissingLabels(files'), COMMA_SPACE))
       ELSE /\ proc_pc' = "parse"
            /\ UNCHANGED <<proc_result, failure>>
    /\ UNCHANGED <<folder_path, folder_exists, listing, fs, content,
                   image_dimensions, notProc>>

\* content = parse_docx(files['docx']), which may raise
ParseDocument ==
    /\ proc_pc = "parse"
    /\ \/ /\ content' \in Contents
          /\ proc_pc' = "image"
          /\ UNCHANGED <<proc_result, failure>>
       \/ /\ Fail("parse", PARSE_FAILED, ErrPackageNotFound)
          /\ UNCHANGED content
    /\ UNCHANGED <<folder_path, folder_exists, listing, fs, files,
                   image_dimensions, notProc>>

\* img_result = convert_png_to_jpg(files['png'], jpg_path, ...)
ProcessImage ==
    /\ proc_pc = "image"
    /\ \E image \in ProcImages, codec_ok \in BOOLEAN :
           LET r == ConvertPngToJpg(image, OUTPUT_WIDTH, codec_ok)
           IN IF r.success
              THEN /\ fs' = DictSet(fs, JpgFilename(files), "jpg")
                   /\ image_dimensions' = r.dimensions
                   /\ proc_pc' = "web_html"
                   /\ UNCHANGED <<proc_result, failure>>
              ELSE /\ ReturnError("image", IMAGE_FAILED \o r.error)
                   /\ UNCHANGED <<fs, image_dimensions>>
    /\ UNCHANGED <<folder_path, folder_exists, listing, files, content,
                   notProc>>

\* generate_press_release_html and the write of html_path; either may raise,
\* a failed write may leave a file
WriteWebHtml ==
    /\ proc_pc = "web_html"
    /\ \/ /\ fs' = DictSet(fs, HtmlFilename(proc_result.folder_name), "web")
          /\ proc_pc' = "email_html"
          /\ UNCHANGED <<proc_result, failure>>
       \/ /\ Fail("web_html", HTML_FAILED, ErrTemplate)
          /\ UNCHANGED fs
       \/ /\ Fail("web_html", HTML_FAILED, ErrPermission)
          /\ fs' \in {fs, DictSet(fs, HtmlFilename(proc_result.folder_name),
                                  "partial")}
    /\ UNCHANGED <<folder_path, folder_exists, listing, files, content,
                   image_dimensions, notProc>>

\* generate_email_html and the write of email_path
WriteEmailHtml ==
    /\ proc_pc = "email_html"
    /\ \/ /\ fs' = DictSet(fs, EmailFilename(proc_result.folder_name),
                           "email")
          /\ proc_pc' = "build"
          /\ UNCHANGED <<proc_result, failure>>
       \/ /\ Fail("email_html", HTML_FAILED, ErrTemplate)
          /\ UNCHANGED fs
       \/ /\ Fail("email_html", HTML_FAILED, ErrPermission)
          /\ fs' \in {fs, DictSet(fs, EmailFilename(proc_result.folder_name),
                                  "partial")}
    /\ UNCHANGED <<folder_path, folder_exists, listing, files, content,
                   image_dimensions, notProc>>

\* files_to_upload, month_folder, preview_urls and success
BuildResult ==
    /\ proc_pc = "build"
    /\ LET month == generate_month_folder(content.date, now)
       IN proc_result' =
              [proc_result EXCEPT
                  !.files_to_upload =
                      FilesToUpload(folder_path, proc_result.folder_name,
                                    files),
                  !.month_folder = month,
                  !.preview_urls =
                      PreviewUrls(month, proc_result.folder_name),
                  !.success = TRUE]
    /\ proc_pc' = "done"
    /\ UNCHANGED <<folder_path, folder_exists, listing, fs, files, content,
                   image_dimensions, failure, notProc>>

(***************************************************************************)
(* Claims about process_press_release                                      *)
(***************************************************************************)

\* the call has returned
Returned == proc_pc = "done"

\* what find_files selects from the folder
Selected == find_files(folder_path, listing)

\* C5: when a required kind of file is missing, the call returns
\* success = false with one error that names each missing kind and no kind
\* that is present, and the folder is as it was.
C5_MissingFilesNamedNothingWritten ==
    (/\ Returned
     /\ folder_exists
     /\ (Selected.docx = NoFile \/ Selected.png = NoFile
            \/ Selected.pdf = NoFile))
        => /\ ~proc_result.success
           /\ Len(proc_result.errors) = 1
           /\ StartsWith(proc_result.errors[1], MISSING_PREFIX)
           /\ Contains(proc_result.errors[1], LABEL_DOCX)
                  <=> Selected.docx = NoFile
           /\ Contains(proc_result.errors[1], LABEL_PNG)
                  <=> Selected.png = NoFile
           /\ Contains(proc_result.errors[1], LABEL_PDF)
                  <=> Selected.pdf = NoFile
           /\ fs = InitialFs(listing)

\* a folder with a document and an image but only an order-form PDF: the
\* error names the PDF alone
C5_Witness ==
    /\ Returned
    /\ \E i \in 1..Len(listing) : listing[i].name = FileOrderFormPdf
    /\ Selected.docx # NoFile
    /\ Selected.png # NoFile
    /\ Selected.pdf = NoFile
    /\ proc_result.errors = <<MISSING_PREFIX \o LABEL_PDF>>

\* C6: no failure leaves the call as an exception; a call in which a step
\* failed returns success = false with a non-empty list of non-empty
\* errors, and success = true comes only with no failed step and no error.
C6_FailuresReturnErrors ==
    /\ proc_pc # "raised"
    /\ Returned =>
           /\ failure # "none"
                  => /\ ~proc_result.success
                     /\ proc_result.errors # <<>>
                     /\ \A i \in 1..Len(proc_result.errors) :
                            proc_result.errors[i] # <<>>
           /\ proc_result.success
                  => failure = "none" /\ proc_result.errors = <<>>
           /\ proc_result.success \/ proc_result.errors # <<>>

\* the last step that can fail did: the email HTML could not be written
C6_Witness ==
    /\ Returned
    /\ failure = "email_html"
    /\ ~proc_result.success
    /\ proc_result.errors = <<HTML_FAILED \o ErrPermission>>

\* the name under which a path of the folder is kept in fs
InFolder(path) ==
    /\ path = PathJoin(folder_path, Basename(path))
    /\ DictHas(fs, Basename(path))
    /\ DictGet(fs, Basename(path)) # "directory"

\* C7: after success the web HTML, the email HTML and the JPG named after
\* the PNG are written in the folder; files_to_upload is the five entries
\* web HTML, email HTML, JPG, PNG, PDF, each a file of the folder; and
\* preview_urls has the two entries html and email.
C7_SuccessOutputs ==
    (Returned /\ proc_result.success) =>
        LET name == Basename(folder_path)
            up == proc_result.files_to_upload
            urls == proc_result.preview_urls
        IN /\ DictHas(fs, name \o EXT_HTML)
           /\ DictGet(fs, name \o EXT_HTML) = "web"
           /\ DictHas(fs, name \o EMAIL_HTML)
           /\ DictGet(fs, name \o EMAIL_HTML) = "email"
           /\ DictHas(fs, SplitExtRoot(Basename(Selected.png)) \o EXT_JPG)
           /\ DictGet(fs, SplitExtRoot(Basename(Selected.png)) \o EXT_JPG)
                  = "jpg"
           /\ Len(up) = 5
           /\ \A i \in 1..5 :
                  /\ InFolder(up[i].local_path)
                  /\ up[i].remote_filename = Basename(up[i].local_path)
           /\ up[1].remote_filename = name \o EXT_HTML
           /\ up[2].remote_filename = name \o EMAIL_HTML
           /\ up[3].remote_filename
                  = SplitExtRoot(Basename(Selected.png)) \o EXT_JPG
           /\ up[4].local_path = Selected.png
           /\ DictGet(fs, Basename(up[4].local_path)) = "original"
           /\ up[5].local_path = Selected.pdf
           /\ DictGet(fs, Basename(up[5].local_path)) = "original"
           /\ Len(urls) = 2
           /\ urls[1][1] = "html"
           /\ EndsWith(urls[1][2], <<"/">> \o name \o EXT_HTML)
           /\ urls[2][1] = "email"
           /\ EndsWith(urls[2][2], <<"/">> \o name \o EMAIL_HTML)
           /\ \A i \in 1..2 : StartsWith(urls[i][2], BASE_URL_HEAD)

\* a success in a folder that holds two documents and whose name has a space
C7_Witness ==
    /\ Returned
    /\ proc_result.success
    /\ folder_path = FolderQ1
    /\ Selected.docx = PathJoin(FolderQ1, FilePublicRelationsDocx)
    /\ Len(listing) = 4
    /\ Len(proc_result.files_to_upload) = 5
    /\ DictHas(fs, JpgFilename(files))

(***************************************************************************)
(* SpecFind: find_files alone, on listings of up to MaxFiles entries       *)
(***************************************************************************)

\* "publicrelations.pdf"
FilePublicRelationsPdf ==
    <<"p","u","b","l","i","c","r","e","l","a","t","i","o","n","s",".","p","d","f">>

\* "Instructions.pdf"
FileInstructionsPdf ==
    <<"I","n","s","t","r","u","c","t","i","o","n","s",".","p","d","f">>

\* the entries of Catalogue and two more PDF files
FindCatalogue ==
    Catalogue \cup {[name |-> FilePublicRelationsPdf, is_file |-> TRUE],
                    [name |-> FileInstructionsPdf, is_file |-> TRUE]}

FindListings ==
    {l \in SeqsUpTo(FindCatalogue, MaxFiles) :
        \A i, j \in 1..Len(l) : i # j => l[i] # l[j]}

FindInit ==
    /\ folder_path \in FolderPaths
    /\ folder_exists = TRUE
    /\ listing \in FindListings
    /\ fs = InitialFs(listing)
    /\ files = NoFiles
    /\ content = EmptyResult
    /\ image_dimensions = <<>>
    /\ proc_result = EmptyProcResult
    /\ failure = "none"
    /\ proc_pc = "list"

\* one call of find_files(folder_path)
FindFiles ==
    /\ proc_pc = "list"
    /\ files' = find_files(folder_path, listing)
    /\ proc_pc' = "found"
    /\ UNCHANGED <<folder_path, folder_exists, listing, fs, content,
                   image_dimensions, proc_result, failure, notProc>>

(***************************************************************************)
(* Claims about find_files                                                 *)
(***************************************************************************)

\* the names of the files of the listing, directories left out
ListedFiles == {listing[i].name : i \in {j \in 1..Len(listing) : listing[j].is_file}}

NameHas(name, word) == Contains(ToLower(name), word)

EligibleDocx(name) ==
    EndsWith(ToLower(name), EXT_DOCX) /\ ~NameHas(name, INSTRUCTION)

EligiblePdf(name) ==
    /\ EndsWith(ToLower(name), EXT_PDF)
    /\ ~NameHas(name, INSTRUCTION)
    /\ ~NameHas(name, ORDER)

IsPngName(name) == EndsWith(ToLower(name), EXT_PNG)

\* the positions of the listing that hold .png files
PngPositions ==
    {i \in 1..Len(listing) : listing[i].is_file /\ IsPngName(listing[i].name)}

\* path is a listed file that satisfies Eligible, or there is no such file
\* and path is None; a 'publicrelations' name is selected when one exists
SelectsAmong(path, Eligible(_)) ==
    LET eligible == {n \in ListedFiles : Eligible(n)}
    IN /\ eligible = {} => path = NoFile
       /\ eligible # {}
              => /\ path \in {PathJoin(folder_path, n) : n \in eligible}
                 /\ (\E n \in eligible : NameHas(n, PUBLICRELATIONS))
                        => NameHas(Basename(path), PUBLICRELATIONS)

\* C14: find_files never selects an excluded .docx or .pdf, selects a
\* 'publicrelations' file of a kind when an eligible one exists, selects
\* some eligible file of each kind when one exists, and selects the last
\* .png file of the listing.
C14_FindFilesSelection ==
    proc_pc = "found" =>
        /\ SelectsAmong(files.docx, EligibleDocx)
        /\ SelectsAmong(files.pdf, EligiblePdf)
        /\ PngPositions = {} => files.png = NoFile
        /\ PngPositions # {}
               => files.png =
                      PathJoin(folder_path,
                               listing[CHOOSE i \in PngPositions :
                                           \A j \in PngPositions : j <= i].name)

\* a listing in which the 'publicrelations' PDF comes before another
\* eligible PDF and two .png files are listed, the last one selected
C14_Witness ==
    /\ proc_pc = "found"
    /\ Len(listing) = 4
    /\ listing[1].name = FilePublicRelationsPdf
    /\ listing[2].name = FilePhoto2Png
    /\ listing[3].name = FileSpecPdf
    /\ listing[4].name = FilePhotoPng
    /\ files.pdf = PathJoin(folder_path, FilePublicRelationsPdf)
    /\ files.png = PathJoin(folder_path, FilePhotoPng)
    /\ files.docx = NoFile

(***************************************************************************)
(* generate_press_release_html and generate_email_html                     *)
(***************************************************************************)

\* "{{title}}"
PH_title ==
    <<"{","{","t","i","t","l","e","}","}">>

\* "{{meta_description}}"
PH_meta_description ==
    <<"{","{","m","e","t","a","_","d","e","s","c","r","i","p","t","i","o","n","}","}">>

\* "{{meta_keywords}}"
PH_meta_keywords ==
    <<"{","{","m","e","t","a","_","k","e","y","w","o","r","d","s","}","}">>

\* "{{headline}}"
PH_headline ==
    <<"{","{","h","e","a","d","l","i","n","e","}","}">>

\* "{{subheadline}}"
PH_subheadline ==
    <<"{","{","s","u","b","h","e","a","d","l","i","n","e","}","}">>

\* "{{jpg_url}}"
PH_jpg_url ==
    <<"{","{","j","p","g","_","u","r","l","}","}">>

\* "{{png_url}}"
PH_png_url ==
    <<"{","{","p","n","g","_","u","r","l","}","}">>

\* "{{pdf_url}}"
PH_pdf_url ==
    <<"{","{","p","d","f","_","u","r","l","}","}">>

\* "{{product_link}}"
PH_product_link ==
    <<"{","{","p","r","o","d","u","c","t","_","l","i","n","k","}","}">>

\* "{{image_alt}}"
PH_image_alt ==
    <<"{","{","i","m","a","g","e","_","a","l","t","}","}">>

\* "{{image_width}}"
PH_image_width ==
    <<"{","{","i","m","a","g","e","_","w","i","d","t","h","}","}">>

\* "{{image_height}}"
PH_image_height ==
    <<"{","{","i","m","a","g","e","_","h","e","i","g","h","t","}","}">>

\* "{{body_paragraphs}}"
PH_body_paragraphs ==
    <<"{","{","b","o","d","y","_","p","a","r","a","g","r","a","p","h","s","}","}">>

\* "{{about_sections}}"
PH_about_sections ==
    <<"{","{","a","b","o","u","t","_","s","e","c","t","i","o","n","s","}","}">>

\* "{{subject}}"
PH_subject ==
    <<"{","{","s","u","b","j","e","c","t","}","}">>

\* "{{web_version_url}}"
PH_web_version_url ==
    <<"{","{","w","e","b","_","v","e","r","s","i","o","n","_","u","r","l","}","}">>

\* "{{first_paragraph}}"
PH_first_paragraph ==
    <<"{","{","f","i","r","s","t","_","p","a","r","a","g","r","a","p","h","}","}">>

\* "{{remaining_paragraphs}}"
PH_remaining_paragraphs ==
    <<"{","{","r","e","m","a","i","n","i","n","g","_","p","a","r","a","g","r","a","p","h","s",
    "}","}">>

\* "{{about_sections_email}}"
PH_about_sections_email ==
    <<"{","{","a","b","o","u","t","_","s","e","c","t","i","o","n","s","_","e","m","a","i","l",
    "}","}">>

\* "{{contact_marketing_name}}"
PH_contact_marketing_name ==
    <<"{","{","c","o","n","t","a","c","t","_","m","a","r","k","e","t","i","n","g","_","n","a",
    "m","e","}","}">>

\* "{{contact_marketing_company}}"
PH_contact_marketing_company ==
    <<"{","{","c","o","n","t","a","c","t","_","m","a","r","k","e","t","i","n","g","_","c","o",
    "m","p","a","n","y","}","}">>

\* "{{contact_marketing_title}}"
PH_contact_marketing_title ==
    <<"{","{","c","o","n","t","a","c","t","_","m","a","r","k","e","t","i","n","g","_","t","i",
    "t","l","e","}","}">>

\* "{{contact_marketing_phone}}"
PH_contact_marketing_phone ==
    <<"{","{","c","o","n","t","a","c","t","_","m","a","r","k","e","t","i","n","g","_","p","h",
    "o","n","e","}","}">>

\* "{{contact_marketing_email}}"
PH_contact_marketing_email ==
    <<"{","{","c","o","n","t","a","c","t","_","m","a","r","k","e","t","i","n","g","_","e","m",
    "a","i","l","}","}">>

\* "{{contact_press_name}}"
PH_contact_press_name ==
    <<"{","{","c","o","n","t","a","c","t","_","p","r","e","s","s","_","n","a","m","e","}","}">>

\* "{{contact_press_company}}"
PH_contact_press_company ==
    <<"{","{","c","o","n","t","a","c","t","_","p","r","e","s","s","_","c","o","m","p","a","n",
    "y","}","}">>

\* "{{contact_press_title}}"
PH_contact_press_title ==
    <<"{","{","c","o","n","t","a","c","t","_","p","r","e","s","s","_","t","i","t","l","e","}",
    "}">>

\* "{{contact_press_phone}}"
PH_contact_press_phone ==
    <<"{","{","c","o","n","t","a","c","t","_","p","r","e","s","s","_","p","h","o","n","e","}",
    "}">>

\* "{{contact_press_email}}"
PH_contact_press_email ==
    <<"{","{","c","o","n","t","a","c","t","_","p","r","e","s","s","_","e","m","a","i","l","}",
    "}">>

\* "Kevin Hess"
MARKETING_NAME ==
    <<"K","e","v","i","n"," ","H","e","s","s">>

\* "Senior Vice President of Marketing"
MARKETING_TITLE ==
    <<"S","e","n","i","o","r"," ","V","i","c","e"," ","P","r","e","s","i","d","e","n","t"," ",
    "o","f"," ","M","a","r","k","e","t","i","n","g">>

\* "Mouser Electronics"
MOUSER_ELECTRONICS ==
    <<"M","o","u","s","e","r"," ","E","l","e","c","t","r","o","n","i","c","s">>

\* "(817) 804-3833"
MARKETING_PHONE ==
    <<"(","8","1","7",")"," ","8","0","4","-","3","8","3","3">>

\* "Kevin.Hess@mouser.com"
MARKETING_EMAIL ==
    <<"K","e","v","i","n",".","H","e","s","s","@","m","o","u","s","e","r",".","c","o","m">>

\* "Kelly DeGarmo"
PRESS_NAME ==
    <<"K","e","l","l","y"," ","D","e","G","a","r","m","o">>

\* "Manager, Corporate Communications and Media Relations"
PRESS_TITLE ==
    <<"M","a","n","a","g","e","r",","," ","C","o","r","p","o","r","a","t","e"," ","C","o","m",
    "m","u","n","i","c","a","t","i","o","n","s"," ","a","n","d"," ","M","e","d","i","a"," ","R",
    "e","l","a","t","i","o","n","s">>

\* "(817) 804-7764"
PRESS_PHONE ==
    <<"(","8","1","7",")"," ","8","0","4","-","7","7","6","4">>

\* "Kelly.DeGarmo@mouser.com"
PRESS_EMAIL ==
    <<"K","e","l","l","y",".","D","e","G","a","r","m","o","@","m","o","u","s","e","r",".","c",
    "o","m">>

\* "                    <p>"
WEB_P_OPEN ==
    <<" "," "," "," "," "," "," "," "," "," "," "," "," "," "," "," "," "," "," "," ","<","p",
    ">">>

\* "</p>"
P_CLOSE ==
    <<"<","/","p",">">>

\* "<p style="font:14px Helvetica, Arial, sans-serif; line-height: 20px;">"
EMAIL_P_OPEN ==
    <<"<","p"," ","s","t","y","l","e","=","\"","f","o","n","t",":","1","4","p","x"," ","H","e",
    "l","v","e","t","i","c","a",","," ","A","r","i","a","l",","," ","s","a","n","s","-","s","e",
    "r","i","f",";"," ","l","i","n","e","-","h","e","i","g","h","t",":"," ","2","0","p","x",";",
    "\"",">">>

\* "                    <h1><u>"
WEB_H1_OPEN ==
    <<" "," "," "," "," "," "," "," "," "," "," "," "," "," "," "," "," "," "," "," ","<","h",
    "1",">","<","u",">">>

\* "</u></h1>"
WEB_H1_CLOSE ==
    <<"<","/","u",">","<","/","h","1",">">>

\* "<h2 style="font:16px Helvetica, Arial, sans-serif; line-height: 20px; font-weight: bold;"><u>"
EMAIL_H2_OPEN ==
    <<"<","h","2"," ","s","t","y","l","e","=","\"","f","o","n","t",":","1","6","p","x"," ","H",
    "e","l","v","e","t","i","c","a",","," ","A","r","i","a","l",","," ","s","a","n","s","-","s",
    "e","r","i","f",";"," ","l","i","n","e","-","h","e","i","g","h","t",":"," ","2","0","p","x",
    ";"," ","f","o","n","t","-","w","e","i","g","h","t",":"," ","b","o","l","d",";","\"",">",
    "<","u",">">>

\* "</u></h2>"
EMAIL_H2_CLOSE ==
    <<"<","/","u",">","<","/","h","2",">">>

\* s[from:].replace(p, v) for a non-empty p: the occurrences of p are taken
\* from the left, each after the end of the one before
RECURSIVE ReplaceFrom(_, _, _, _)
ReplaceFrom(s, p, v, from) ==
    LET occ == {i \in Occurrences(s, p) : i >= from}
    IN IF occ = {} THEN Slice(s, from, Len(s))
       ELSE Slice(s, from, SetMin(occ)) \o v
                \o ReplaceFrom(s, p, v, SetMin(occ) + Len(p))

\* s.replace(p, v)
StrReplace(s, p, v) == ReplaceFrom(s, p, v, 0)

\* for placeholder, value in replacements.items():
\*     result = result.replace(placeholder, value)
\* (each replacement is computed, as its length, before the next one starts)
RECURSIVE ApplyReplacementsFrom(_, _, _)
ApplyReplacementsFrom(result, replacements, k) ==
    IF k > Len(replacements) THEN result
    ELSE LET replaced ==
                 StrReplace(result, replacements[k][1], replacements[k][2])
         IN IF Len(replaced) >= 0
            THEN ApplyReplacementsFrom(replaced, replacements, k + 1)
            ELSE replaced

ApplyReplacements(result, replacements) ==
    ApplyReplacementsFrom(result, replacements, 1)

\* [f(x) for x in xs]
WrapEach(xs, open, close) == [i \in 1..Len(xs) |-> open \o xs[i] \o close]

\* format_body_paragraphs(paragraphs, for_email)
format_body_paragraphs(paragraphs, for_email) ==
    Join(WrapEach(paragraphs, IF for_email THEN EMAIL_P_OPEN ELSE WEB_P_OPEN,
                  P_CLOSE),
         <<"\n">>)

\* the list formatted of format_about_sections
RECURSIVE AboutLines(_, _)
AboutLines(about_sections, for_email) ==
    IF about_sections = <<>> THEN <<>>
    ELSE LET title == Head(about_sections)[1]
             paragraphs == Head(about_sections)[2]
         IN (IF for_email
             THEN <<EMAIL_H2_OPEN \o title \o EMAIL_H2_CLOSE>>
                      \o WrapEach(paragraphs, EMAIL_P_OPEN, P_CLOSE)
             ELSE <<WEB_H1_OPEN \o title \o WEB_H1_CLOSE>>
                      \o WrapEach(paragraphs, WEB_P_OPEN, P_CLOSE))
                \o AboutLines(Tail(about_sections), for_email)

\* format_about_sections(about_sections, for_email)
format_about_sections(about_sections, for_email) ==
    Join(AboutLines(about_sections, for_email), <<"\n">>)

\* base_url of a renderer called with the arguments a when datetime.now()
\* is time
RenderBaseUrl(a, time) ==
    BaseUrl(generate_month_folder(a.content.date, time), a.folder_name)

\* jpg_url = image_url if image_url else f"{base_url}{jpg_filename}"
JpgUrl(a, time) ==
    IF a.image_url # <<>> THEN a.image_url
    ELSE RenderBaseUrl(a, time) \o a.jpg_filename

\* if not product_link: product_link = content.get('product_link', '#');
\* the key is always in the dict parse_docx returns
ProductLink(a) ==
    IF a.product_link # <<>> THEN a.product_link ELSE a.content.product_link

\* replacements of generate_press_release_html, in the order of the dict
WebReplacements(a, time) ==
    <<
      <<PH_title, a.folder_name>>,
      <<PH_meta_description, a.content.meta_description>>,
      <<PH_meta_keywords, a.content.meta_keywords>>,
      <<PH_headline, a.content.headline>>,
      <<PH_subheadline, a.content.subheadline>>,
      <<PH_jpg_url, JpgUrl(a, time)>>,
      <<PH_png_url, RenderBaseUrl(a, time) \o a.png_filename>>,
      <<PH_pdf_url, RenderBaseUrl(a, time) \o a.pdf_filename>>,
      <<PH_product_link, ProductLink(a)>>,
      <<PH_image_alt, a.content.headline>>,
      <<PH_image_width, IntToStr(a.image_dimensions[1])>>,
      <<PH_image_height, IntToStr(a.image_dimensions[2])>>,
      <<PH_body_paragraphs, format_body_paragraphs(a.content.body_paragraphs, FALSE)>>,
      <<PH_about_sections, format_about_sections(a.content.about_sections, FALSE)>>,
      <<PH_contact_marketing_name, MARKETING_NAME>>,
      <<PH_contact_marketing_company, MOUSER_ELECTRONICS>>,
      <<PH_contact_marketing_title, MARKETING_TITLE>>,
      <<PH_contact_marketing_phone, MARKETING_PHONE>>,
      <<PH_contact_marketing_email, MARKETING_EMAIL>>,
      <<PH_contact_press_name, PRESS_NAME>>,
      <<PH_contact_press_company, MOUSER_ELECTRONICS>>,
      <<PH_contact_press_title, PRESS_TITLE>>,
      <<PH_contact_press_phone, PRESS_PHONE>>,
      <<PH_contact_press_email, PRESS_EMAIL>>
    >>

\* replacements of generate_email_html, in the order of the dict
EmailReplacements(a, time) ==
    <<
      <<PH_title, a.folder_name>>,
      <<PH_subject, IF a.subject # <<>> THEN a.subject ELSE a.content.headline>>,
      <<PH_web_version_url, RenderBaseUrl(a, time) \o a.folder_name \o EXT_HTML>>,
      <<PH_headline, a.content.headline>>,
      <<PH_subheadline, a.content.subheadline>>,
      <<PH_jpg_url, JpgUrl(a, time)>>,
      <<PH_png_url, RenderBaseUrl(a, time) \o a.png_filename>>,
      <<PH_pdf_url, RenderBaseUrl(a, time) \o a.pdf_filename>>,
      <<PH_product_link, ProductLink(a)>>,
      <<PH_image_alt, a.content.headline>>,
      <<PH_image_width, IntToStr(a.image_dimensions[1])>>,
      <<PH_image_height, IntToStr(a.image_dimensions[2])>>,
      <<PH_first_paragraph, IF a.content.body_paragraphs # <<>>
                            THEN a.content.body_paragraphs[1] ELSE <<>>>>,
      <<PH_remaining_paragraphs, IF Len(a.content.body_paragraphs) > 1
          THEN format_body_paragraphs(Tail(a.content.body_paragraphs), TRUE)
          ELSE <<>>>>,
      <<PH_about_sections_email, format_about_sections(a.content.about_sections, TRUE)>>,
      <<PH_contact_marketing_name, MARKETING_NAME>>,
      <<PH_contact_marketing_company, MOUSER_ELECTRONICS>>,
      <<PH_contact_marketing_title, MARKETING_TITLE>>,
      <<PH_contact_marketing_phone, MARKETING_PHONE>>,
      <<PH_contact_marketing_email, MARKETING_EMAIL>>,
      <<PH_contact_press_name, PRESS_NAME>>,
      <<PH_contact_press_company, MOUSER_ELECTRONICS>>,
      <<PH_contact_press_title, PRESS_TITLE>>,
      <<PH_contact_press_phone, PRESS_PHONE>>,
      <<PH_contact_press_email, PRESS_EMAIL>>
    >>

generate_press_release_html(a, time) ==
    ApplyReplacements(a.template, WebReplacements(a, time))

generate_email_html(a, time) ==
    ApplyReplacements(a.template, EmailReplacements(a, time))

(***************************************************************************)
(* SpecRender: up to MaxCalls calls of the renderers with the same         *)
(* arguments, each at some date of the clock                               *)
(***************************************************************************)

MaxCalls == 2

\* "<h1>{{headline}}</h1><i>{{subheadline}}</i><img alt="{{image_alt}}">{{headline}}{{unknown}}"
TplHeadline ==
    <<"<","h","1",">","{","{","h","e","a","d","l","i","n","e","}","}","<","/","h","1",">","<",
    "i",">","{","{","s","u","b","h","e","a","d","l","i","n","e","}","}","<","/","i",">","<","i",
    "m","g"," ","a","l","t","=","\"","{","{","i","m","a","g","e","_","a","l","t","}","}","\"",
    ">","{","{","h","e","a","d","l","i","n","e","}","}","{","{","u","n","k","n","o","w","n","}",
    "}">>

\* "{{jpg_url}} {{png_url}} {{pdf_url}} {{web_version_url}} {{image_width}}x{{image_height}} {{product_link}}"
TplUrls ==
    <<"{","{","j","p","g","_","u","r","l","}","}"," ","{","{","p","n","g","_","u","r","l","}",
    "}"," ","{","{","p","d","f","_","u","r","l","}","}"," ","{","{","w","e","b","_","v","e","r",
    "s","i","o","n","_","u","r","l","}","}"," ","{","{","i","m","a","g","e","_","w","i","d","t",
    "h","}","}","x","{","{","i","m","a","g","e","_","h","e","i","g","h","t","}","}"," ","{","{",
    "p","r","o","d","u","c","t","_","l","i","n","k","}","}">>

\* "{{body_paragraphs}}|{{about_sections}}|{{first_paragraph}}|{{remaining_paragraphs}}|{{about_sections_email}}"
TplBlocks ==
    <<"{","{","b","o","d","y","_","p","a","r","a","g","r","a","p","h","s","}","}","|","{","{",
    "a","b","o","u","t","_","s","e","c","t","i","o","n","s","}","}","|","{","{","f","i","r","s",
    "t","_","p","a","r","a","g","r","a","p","h","}","}","|","{","{","r","e","m","a","i","n","i",
    "n","g","_","p","a","r","a","g","r","a","p","h","s","}","}","|","{","{","a","b","o","u","t",
    "_","s","e","c","t","i","o","n","s","_","e","m","a","i","l","}","}">>

\* "{{title}}|{{subject}}|{{meta_description}}|{{meta_keywords}}|{{contact_marketing_name}}, {{contact_marketing_title}}, {{contact_marketing_company}}, {{contact_marketing_phone}}, {{contact_marketing_email}}|{{contact_press_name}}, {{contact_press_title}}, {{contact_press_company}}, {{contact_press_phone}}, {{contact_press_email}}"
TplHead ==
    <<"{","{","t","i","t","l","e","}","}","|","{","{","s","u","b","j","e","c","t","}","}","|",
    "{","{","m","e","t","a","_","d","e","s","c","r","i","p","t","i","o","n","}","}","|","{","{",
    "m","e","t","a","_","k","e","y","w","o","r","d","s","}","}","|","{","{","c","o","n","t","a",
    "c","t","_","m","a","r","k","e","t","i","n","g","_","n","a","m","e","}","}",","," ","{","{",
    "c","o","n","t","a","c","t","_","m","a","r","k","e","t","i","n","g","_","t","i","t","l","e",
    "}","}",","," ","{","{","c","o","n","t","a","c","t","_","m","a","r","k","e","t","i","n","g",
    "_","c","o","m","p","a","n","y","}","}",","," ","{","{","c","o","n","t","a","c","t","_","m",
    "a","r","k","e","t","i","n","g","_","p","h","o","n","e","}","}",","," ","{","{","c","o","n",
    "t","a","c","t","_","m","a","r","k","e","t","i","n","g","_","e","m","a","i","l","}","}","|",
    "{","{","c","o","n","t","a","c","t","_","p","r","e","s","s","_","n","a","m","e","}","}",",",
    " ","{","{","c","o","n","t","a","c","t","_","p","r","e","s","s","_","t","i","t","l","e","}",
    "}",","," ","{","{","c","o","n","t","a","c","t","_","p","r","e","s","s","_","c","o","m","p",
    "a","n","y","}","}",","," ","{","{","c","o","n","t","a","c","t","_","p","r","e","s","s","_",
    "p","h","o","n","e","}","}",","," ","{","{","c","o","n","t","a","c","t","_","p","r","e","s",
    "s","_","e","m","a","i","l","}","}">>

\* "In stock now"
TxtInStockNow ==
    <<"I","n"," ","s","t","o","c","k"," ","n","o","w">>

\* "Hello"
TxtHello ==
    <<"H","e","l","l","o">>

\* "widget, launch"
TxtWidgetKeywords ==
    <<"w","i","d","g","e","t",","," ","l","a","u","n","c","h">>

RenderTemplates == {TplHeadline, TplUrls, TplBlocks, TplHead}

\* content models: empty, filled with a date, and one without a date whose
\* headline is the text of a placeholder
RenderContents ==
    {EmptyResult,
     [EmptyResult EXCEPT
         !.headline = TxtWidgetLaunch,
         !.subheadline = TxtNowInStock,
         !.date = DateJanuary19,
         !.body_paragraphs = <<DateJanuary19, TxtInStockNow, TxtHello>>,
         !.about_sections = <<<<TxtAboutMouser, <<TxtHello, TxtInStockNow>>>>,
                              <<TxtAboutAcme, <<>>>>>>,
         !.product_link = UrlPlain,
         !.meta_description = DateJanuary19,
         !.meta_keywords = TxtWidgetKeywords],
     [EmptyResult EXCEPT
         !.headline = PH_subheadline,
         !.subheadline = TxtNowInStock,
         !.body_paragraphs = <<TxtInStockNow>>]}

\* the optional arguments: all left out, or all given
RenderOptions ==
    {[product_link |-> <<>>, image_url |-> <<>>, subject |-> <<>>],
     [product_link |-> UrlOther, image_url |-> UrlOther, subject |-> TxtHello]}

RenderArgs ==
    {[template |-> t, content |-> c, folder_name |-> Basename(FolderQ1),
      jpg_filename |-> FilePhotoJpg, png_filename |-> FilePhotoPng,
      pdf_filename |-> FileSpecPdf, image_dimensions |-> <<336, 100>>,
      product_link |-> o.product_link, image_url |-> o.image_url,
      subject |-> o.subject] :
        t \in RenderTemplates, c \in RenderContents, o \in RenderOptions}

RenderIdle ==
    /\ render_args = <<>>
    /\ render_calls = <<>>
    /\ render_pc = "idle"

RenderInit ==
    /\ render_args \in RenderArgs
    /\ render_calls = <<>>
    /\ render_pc = "ready"

\* one call of generate_press_release_html(render_args) at a date of the clock
RenderWeb ==
    /\ render_pc = "ready"
    /\ Len(render_calls) < MaxCalls
    /\ \E time \in Nows :
           render_calls' =
               Append(render_calls,
                      [renderer |-> "web", time |-> time,
                       html |-> generate_press_release_html(render_args, time)])
    /\ UNCHANGED <<render_args, render_pc, notRender>>

\* one call of generate_email_html(render_args) at a date of the clock
RenderEmail ==
    /\ render_pc = "ready"
    /\ Len(render_calls) < MaxCalls
    /\ \E time \in Nows :
           render_calls' =
               Append(render_calls,
                      [renderer |-> "email", time |-> time,
                       html |-> generate_email_html(render_args, time)])
    /\ UNCHANGED <<render_args, render_pc, notRender>>

(***************************************************************************)
(* Claims about the renderers                                              *)
(***************************************************************************)

\* the placeholders of replacements that occur in text at offset i
PlaceholdersAt(text, replacements, i) ==
    {k \in 1..Len(replacements) :
        /\ i + Len(replacements[k][1]) <= Len(text)
        /\ Slice(text, i, i + Len(replacements[k][1])) = replacements[k][1]}

\* text from offset from on, with every placeholder of replacements that
\* occurs in it replaced by its value and everything else kept
RECURSIVE Substituted(_, _, _)
Substituted(text, replacements, from) ==
    LET starts == {i \in from..(Len(text) - 1) :
                      PlaceholdersAt(text, replacements, i) # {}}
    IN IF starts = {} THEN Slice(text, from, Len(text))
       ELSE LET i == SetMin(starts)
                k == CHOOSE q \in PlaceholdersAt(text, replacements, i) : TRUE
            IN Slice(text, from, i) \o replacements[k][2]
                   \o Substituted(text, replacements,
                                  i + Len(replacements[k][1]))

\* the replacements of a call
ReplacementsOf(call) ==
    IF call.renderer = "web" THEN WebReplacements(render_args, call.time)
    ELSE EmailReplacements(render_args, call.time)

\* C11: the output of a renderer is the template with every occurrence of
\* each placeholder of its set replaced by the computed value, every other
\* placeholder and all other template text left as they are.
C11_PlaceholdersReplaced ==
    \A n \in 1..Len(render_calls) :
        render_calls[n].html =
            Substituted(render_args.template, ReplacementsOf(render_calls[n]), 0)

\* C12: two calls of the same renderer with the same arguments return the
\* same HTML, whatever the date of the clock at each call.
C12_RenderingIsPure ==
    \A n, q \in 1..Len(render_calls) :
        render_calls[n].renderer = render_calls[q].renderer
            => render_calls[n].html = render_calls[q].html

(***************************************************************************)
(* Concurrent invocations of process_press_release                         *)
(*                                                                         *)
(* Each invocation has its own locals (st); the file system (disk) and the *)
(* module-level DEFAULT_CONFIG (config) are what invocations could share.  *)
(* disk is the sequence of <<path, kind>> of every entry.  What the        *)
(* environment does at each step of an invocation (whether parse_docx      *)
(* raises, what the PNG holds, whether a write fails) is its script.       *)
(***************************************************************************)

\* os.path.dirname(path)
Dirname(path) ==
    LET slashes == {i \in 1..Len(path) : path[i] = "/"}
    IN IF slashes = {} THEN <<>>
       ELSE Slice(path, 0, (CHOOSE i \in slashes : \A j \in slashes : j <= i) - 1)

\* os.listdir(folder) with os.path.isfile of each entry
DiskListing(d, folder) ==
    LET inside == SelectSeq(d, LAMBDA e : Dirname(e[1]) = folder)
    IN [i \in 1..Len(inside) |->
           [name |-> Basename(inside[i][1]),
            is_file |-> inside[i][2] # "directory"]]

\* the part of DEFAULT_CONFIG process_press_release reads
DefaultConfig ==
    [output_width |-> OUTPUT_WIDTH]

\* the locals of an invocation on folder
NewInvocation(folder) ==
    [folder_path |-> folder, files |-> NoFiles, content |-> EmptyResult,
     image_dimensions |-> <<>>, result |-> EmptyProcResult,
     failure |-> "none", pc |-> "start"]

\* every output written to one folder, whatever the invocation
OutputFolderShared(st) == FolderQ1

\* the folder the outputs are written to: os.path.join(folder_path, ...)
OutputFolder(st) == st.folder_path

\* open(path, 'w') and write, or save, of a file of kind
WriteFile(d, folder, name, kind) == DictSet(d, PathJoin(folder, name), kind)

\* return result with message appended to result['errors']
ReturnWith(st, d, step, message) ==
    [st |-> [st EXCEPT !.failure = step,
                       !.result.errors = Append(@, message),
                       !.pc = "done"],
     disk |-> d]

\* an exception e at step: returned as an error if the step is in a try
\* block, leaving the call otherwise
RaiseAt(st, d, step, prefix, e) ==
    IF Handled(step) THEN ReturnWith(st, d, step, prefix \o e)
    ELSE [st |-> [st EXCEPT !.failure = step, !.pc = "raised"], disk |-> d]

\* the write of an HTML file at step: outcome "ok", "template" (the
\* renderer raises), "denied" (open raises) or "partial" (write raises
\* after open created the file)
WriteHtmlStep(st, d, step, name, kind, outcome, next_pc) ==
    IF outcome = "ok"
    THEN [st |-> [st EXCEPT !.pc = next_pc],
          disk |-> WriteFile(d, OutputFolder(st), name, kind)]
    ELSE IF outcome = "template"
    THEN RaiseAt(st, d, step, HTML_FAILED, ErrTemplate)
    ELSE IF outcome = "denied"
    THEN RaiseAt(st, d, step, HTML_FAILED, ErrPermission)
    ELSE RaiseAt(st, WriteFile(d, OutputFolder(st), name, "partial"), step,
                 HTML_FAILED, ErrPermission)

\* the next step of process_press_release for the locals st on the file
\* system d: the locals and the file system after it
InvocationStep(st, d, script, cfg, time) ==
    IF st.pc = "start"
    THEN IF ~script.folder_exists
         THEN ReturnWith(st, d, "folder", FOLDER_NOT_FOUND \o st.folder_path)
         ELSE [st |-> [st EXCEPT
                          !.result.folder_name = Basename(st.folder_path),
                          !.pc = "find"],
               disk |-> d]
    ELSE IF st.pc = "find"
    THEN LET found == find_files(st.folder_path,
                                 DiskListing(d, st.folder_path))
         IN IF MissingLabels(found) # <<>>
            THEN ReturnWith([st EXCEPT !.files = found], d, "missing",
                            MISSING_PREFIX
                                \o Join(MissingLabels(found), COMMA_SPACE))
            ELSE [st |-> [st EXCEPT !.files = found, !.pc = "parse"],
                  disk |-> d]
    ELSE IF st.pc = "parse"
    THEN IF script.parse_ok
         THEN [st |-> [st EXCEPT !.content = script.content, !.pc = "image"],
               disk |-> d]
         ELSE RaiseAt(st, d, "parse", PARSE_FAILED, ErrPackageNotFound)
    ELSE IF st.pc = "image"
    THEN LET r == ConvertPngToJpg(script.image, cfg.output_width,
                                  script.codec_ok)
         IN IF r.success
            THEN [st |-> [st EXCEPT !.image_dimensions = r.dimensions,
                                    !.pc = "web_html"],
                  disk |-> WriteFile(d, OutputFolder(st),
                                     JpgFilename(st.files), "jpg")]
            ELSE ReturnWith(st, d, "image", IMAGE_FAILED \o r.error)
    ELSE IF st.pc = "web_html"
    THEN WriteHtmlStep(st, d, "web_html",
                       HtmlFilename(st.result.folder_name), "web",
                       script.web, "email_html")
    ELSE IF st.pc = "email_html"
    THEN WriteHtmlStep(st, d, "email_html",
                       EmailFilename(st.result.folder_name), "email",
                       script.email, "build")
    ELSE IF st.pc = "build"
    THEN LET month == generate_month_folder(st.content.date, time)
         IN [st |-> [st EXCEPT
                        !.result.files_to_upload =
                            FilesToUpload(st.folder_path,
                                          st.result.folder_name, st.files),
                        !.result.month_folder = month,
                        !.result.preview_urls =
                            PreviewUrls(month, st.result.folder_name),
                        !.result.success = TRUE,
                        !.pc = "done"],
             disk |-> d]
    ELSE [st |-> st, disk |-> d]

(***************************************************************************)
(* SpecConcurrent: two invocations on two folders, their steps interleaved *)
(***************************************************************************)

\* the folder of each invocation
FolderOf == <<FolderQ1, FolderWidget>>

File(name) == [name |-> name, is_file |-> TRUE]

\* what a folder holds at the start
FolderListings ==
    {<<File(FileReportDocx), File(FilePhotoPng), File(FileSpecPdf)>>,
     <<File(FilePhotoJpg), File(FilePublicRelationsDocx),
       File(FilePhoto2Png), File(FileReportDocx), File(FileSpecPdf)>>,
     <<File(FileReportDocx), File(FilePhotoPng), File(FileOrderFormPdf)>>}

ScriptAllOk ==
    [folder_exists |-> TRUE, parse_ok |-> TRUE,
     content |-> [EmptyResult EXCEPT !.date = DateJanuary19],
     image |-> [width |-> 672, height |-> 200, mode |-> "RGBA"],
     codec_ok |-> TRUE, web |-> "ok", email |-> "ok"]

Scripts ==
    {ScriptAllOk,
     [ScriptAllOk EXCEPT !.content = EmptyResult, !.email = "partial"],
     [ScriptAllOk EXCEPT !.web = "template"],
     [ScriptAllOk EXCEPT !.codec_ok = FALSE],
     [ScriptAllOk EXCEPT !.parse_ok = FALSE]}

\* the entries of a folder on the file system
FolderEntries(folder, entries) ==
    [i \in 1..Len(entries) |->
        <<PathJoin(folder, entries[i].name),
          IF entries[i].is_file THEN "original" ELSE "directory">>]

ConcIdle ==
    /\ invocations = <<>>
    /\ scripts = <<>>
    /\ disk = <<>>
    /\ start_disk = <<>>
    /\ config = DefaultConfig
    /\ overlapped = FALSE

ConcInit ==
    /\ invocations = <<NewInvocation(FolderOf[1]), NewInvocation(FolderOf[2])>>
    /\ scripts \in [1..2 -> Scripts]
    /\ \E l1 \in FolderListings, l2 \in FolderListings :
           disk = FolderEntries(FolderOf[1], l1)
                      \o FolderEntries(FolderOf[2], l2)
    /\ start_disk = disk
    /\ config = DefaultConfig
    /\ overlapped = FALSE

\* one step of invocation i; overlapped records that the other invocation
\* was between its first and its last step
StepInvocation(i) ==
    /\ invocations # <<>>
    /\ invocations[i].pc \notin {"done", "raised"}
    /\ \E r \in {InvocationStep(invocations[i], disk, scripts[i], config,
                                 now)} :
           /\ invocations' = [invocations EXCEPT ![i] = r.st]
           /\ disk' = r.disk
    /\ overlapped' =
           (overlapped \/ invocations[3 - i].pc \notin {"start", "done", "raised"})
    /\ UNCHANGED <<scripts, start_disk, config, notConc>>

StepFirst == StepInvocation(1)

StepSecond == StepInvocation(2)

(***************************************************************************)
(* Claims about concurrent invocations                                     *)
(***************************************************************************)

\* the invocation on folder run to its end alone, from st on d
RECURSIVE RunAlone(_, _, _, _, _)
RunAlone(st, d, script, cfg, time) ==
    IF st.pc \in {"done", "raised"} THEN [st |-> st, disk |-> d]
    ELSE LET r == InvocationStep(st, d, script, cfg, time)
         IN RunAlone(r.st, r.disk, script, cfg, time)

\* what invocation i would leave had it run alone from the start
Alone(i) ==
    RunAlone(NewInvocation(FolderOf[i]), start_disk, scripts[i],
             DefaultConfig, now)

\* the entries of d inside folder
FolderFiles(d, folder) == SelectSeq(d, LAMBDA e : Dirname(e[1]) = folder)

\* C13: under every interleaving, an invocation that has returned has the
\* result, and its folder the files, of the same invocation run alone; the
\* configuration the invocations read is never changed.
C13_InvocationsIndependent ==
    invocations # <<>> =>
        /\ config = DefaultConfig
        /\ \A i \in 1..2 :
               invocations[i].pc \in {"done", "raised"}
                   => /\ invocations[i] = Alone(i).st
                      /\ FolderFiles(disk, FolderOf[i])
                             = FolderFiles(Alone(i).disk, FolderOf[i])

\* both invocations returned success after steps of one fell between the
\* steps of the other, and each folder holds its own three outputs
C13_Witness ==
    /\ invocations # <<>>
    /\ overlapped
    /\ \A i \in 1..2 :
           /\ invocations[i].pc = "done"
           /\ invocations[i].result.success
           /\ Len(invocations[i].result.files_to_upload) = 5
           /\ \A k \in 1..3 :
                  DictHas(disk,
                          invocations[i].result.files_to_upload[k].local_path)
    /\ invocations[1].result # invocations[2].result

(***************************************************************************)
(* The webhook handler: api/webhook.py                                     *)
(*                                                                         *)
(* request is the HTTP request, ticket_info what the payload yields,       *)
(* temp_dir the state of the directory of mkdtemp and temp_files what it   *)
(* holds, wh_result and upload_result the values of process_press_release and *)
(* upload_to_ftp, calls the calls the handler has made to the pipeline and *)
(* to Slack with their outcome, response what the handler returns.         *)
(***************************************************************************)

\* "/tmp/mouser_pr_a1"
TempDir ==
    <<"/","t","m","p","/","m","o","u","s","e","r","_","p","r","_","a","1">>

\* "/Mouser/Q1 PR"
DropboxAbsolute ==
    <<"/","M","o","u","s","e","r","/","Q","1"," ","P","R">>

\* "Q1 PR"
DropboxRelative ==
    <<"Q","1"," ","P","R">>

\* "https://mou.sr/q1"
TrackingUrl ==
    <<"h","t","t","p","s",":","/","/","m","o","u",".","s","r","/","q","1">>

\* "Now in stock"
SubjectLine ==
    <<"N","o","w"," ","i","n"," ","s","t","o","c","k">>

NoResponse == [statusCode |-> 0, error |-> "none"]

NoUpload == [success |-> FALSE, error |-> "none", uploaded |-> 0]

NoTicket ==
    [key |-> "Unknown", folder_path |-> <<>>, image_url |-> <<>>,
     subject |-> <<>>]

\* extract_ticket_info_from_webhook(payload) for a payload that is an object
\* whose description is text: the key, 'Unknown' without one, and the three
\* fields parse_jira_ticket finds, <<>> for a field it does not find
extract_ticket_info_from_webhook(body) ==
    [key |-> IF body.key = "" THEN "Unknown" ELSE body.key,
     folder_path |-> body.folder_path,
     image_url |-> body.image_url,
     subject |-> body.subject]

\* validate_parsed_data(data)[1]: the labels of the fields not found
validate_parsed_data(data) ==
    (IF data.folder_path = <<>> THEN <<"FILES ON SERVER">> ELSE <<>>)
        \o (IF data.image_url = <<>> THEN <<"LINK EMBEDDED IMAGE TO">>
            ELSE <<>>)
        \o (IF data.subject = <<>> THEN <<"EMAIL SUBJECT LINE">> ELSE <<>>)

\* dropbox_path: folder_path with a leading "/"
DropboxPath(path) == IF StartsWith(path, <<"/">>) THEN path ELSE <<"/">> \o path

\* upload_to_ftp(manifest, ...): outcome 0 is a failure before the first file
\* (connect, login, mkd), k in 1..Len(manifest) a failure at file k,
\* Len(manifest) + 1 a failure of ftp.quit(), anything above no failure
upload_to_ftp(manifest, outcome) ==
    IF outcome > Len(manifest) + 1
    THEN [success |-> TRUE, error |-> "none", uploaded |-> Len(manifest)]
    ELSE [success |-> FALSE, error |-> "ftp error",
          uploaded |-> IF outcome = 0 THEN 0
                       ELSE IF outcome > Len(manifest) THEN Len(manifest)
                       ELSE outcome - 1]

\* the handler going on to the notification whatever upload_to_ftp returned
AfterUploadUnchecked(r) == "notify"

\* where the handler goes after upload_to_ftp returned r
AfterUpload(r) == IF ~r.success THEN "upload_failed" ELSE "notify"

\* a call of the handler, with whether it succeeded
Call(name, ok) == [name |-> name, ok |-> ok]

\* the files download_folder writes to local_dir for the entries it got to
Downloaded(held, entries, n) ==
    LET RECURSIVE Put(_, _)
        Put(acc, i) ==
            IF i > n THEN acc
            ELSE Put(IF entries[i].is_file
                     THEN WriteFile(acc, TempDir, entries[i].name, "original")
                     ELSE acc, i + 1)
    IN Put(held, 1)

(***************************************************************************)
(* SpecWebhook: one request through the handler                            *)
(***************************************************************************)

Tickets ==
    [kind : {"object"}, key : {"MW-123", ""},
     folder_path : {<<>>, DropboxAbsolute, DropboxRelative},
     image_url : {<<>>, TrackingUrl}, subject : {<<>>, SubjectLine}]

\* bodies that are not a JSON object with a text description
OtherBodies ==
    {[kind |-> k, key |-> "", folder_path |-> <<>>, image_url |-> <<>>,
      subject |-> <<>>] :
        k \in {"invalid_json", "undecodable", "empty", "array",
               "adf_description"}}

Requests ==
    {[method |-> "POST", body |-> b] : b \in Tickets \cup OtherBodies}
        \cup {[method |-> "GET", body |-> b] : b \in OtherBodies}

WebhookIdle ==
    /\ request = [method |-> "none"]
    /\ ticket_info = NoTicket
    /\ temp_dir = "none"
    /\ temp_files = <<>>
    /\ wh_result = EmptyProcResult
    /\ upload_result = NoUpload
    /\ calls = <<>>
    /\ response = NoResponse
    /\ wh_pc = "idle"

WebhookInit ==
    /\ request \in Requests
    /\ ticket_info = NoTicket
    /\ temp_dir = "none"
    /\ temp_files = <<>>
    /\ wh_result = EmptyProcResult
    /\ upload_result = NoUpload
    /\ calls = <<>>
    /\ response = NoResponse
    /\ wh_pc = "method"

\* return {'statusCode': code, ...} ahead of the try block
Respond(code, error) ==
    /\ response' = [statusCode |-> code, error |-> error]
    /\ wh_pc' = "returned"

\* a return inside the try block that leaves the handler at once
RespondSkippingFinally(code, error) ==
    /\ response' = [statusCode |-> code, error |-> error]
    /\ wh_pc' = "returned"

\* return {'statusCode': code, ...} inside the try block: the finally
\* block runs before the handler returns
RespondInTry(code, error) ==
    /\ response' = [statusCode |-> code, error |-> error]
    /\ wh_pc' = "finally"

\* if request.method != 'POST'
CheckMethod ==
    /\ wh_pc = "method"
    /\ IF request.method # "POST"
       THEN Respond(405, "Method not allowed")
       ELSE wh_pc' = "json" /\ UNCHANGED response
    /\ UNCHANGED <<request, ticket_info, temp_dir, temp_files, wh_result,
                   upload_result, calls, notWebhook>>

\* body.decode and json.loads: only json.JSONDecodeError is caught
ParsePayload ==
    /\ wh_pc = "json"
    /\ IF request.body.kind = "invalid_json"
       THEN Respond(400, "Invalid JSON")
       ELSE IF request.body.kind = "undecodable"
       THEN wh_pc' = "raised" /\ UNCHANGED response
       ELSE wh_pc' = "extract" /\ UNCHANGED response
    /\ UNCHANGED <<request, ticket_info, temp_dir, temp_files, wh_result,
                   upload_result, calls, notWebhook>>

\* extract_ticket_info_from_webhook(payload): payload.get raises for a
\* payload that is not an object, re.search for a description that is not
\* text; {} yields no field
ExtractTicketInfo ==
    /\ wh_pc = "extract"
    /\ IF request.body.kind \in {"array", "adf_description"}
       THEN wh_pc' = "raised" /\ UNCHANGED ticket_info
       ELSE /\ ticket_info' = extract_ticket_info_from_webhook(request.body)
            /\ wh_pc' = "validate"
    /\ UNCHANGED <<request, temp_dir, temp_files, wh_result, upload_result,
                   calls, response, notWebhook>>

\* validate_parsed_data and the 400 response for missing fields
ValidateFields ==
    /\ wh_pc = "validate"
    /\ IF validate_parsed_data(ticket_info) # <<>>
       THEN /\ \E sent \in BOOLEAN :
                   calls' = Append(calls, Call("notify_error", sent))
            /\ Respond(400, "Missing required fields")
       ELSE wh_pc' = "mkdtemp" /\ UNCHANGED <<calls, response>>
    /\ UNCHANGED <<request, ticket_info, temp_dir, temp_files, wh_result,
                   upload_result, notWebhook>>

\* temp_dir = tempfile.mkdtemp(...), ahead of the try block
CreateTempDir ==
    /\ wh_pc = "mkdtemp"
    /\ \E created \in BOOLEAN :
           IF created
           THEN temp_dir' = "exists" /\ wh_pc' = "client"
           ELSE temp_dir' = temp_dir /\ wh_pc' = "raised"
    /\ UNCHANGED <<request, ticket_info, temp_files, wh_result, upload_result,
                   calls, response, notWebhook>>

\* dropbox = DropboxClient(): raises without an access token
CreateClient ==
    /\ wh_pc = "client"
    /\ \E token \in BOOLEAN :
           wh_pc' = IF token THEN "download" ELSE "except"
    /\ UNCHANGED <<request, ticket_info, temp_dir, temp_files, wh_result,
                   upload_result, calls, response, notWebhook>>

\* dropbox.download_folder(path, temp_dir) from from_pc: the files of the
\* entries it got to are in temp_dir, whether it then raised or not
DownloadStep(from_pc, failed_pc) ==
    /\ wh_pc = from_pc
    /\ \E entries \in FolderListings, n \in 0..3 :
           /\ n <= Len(entries)
           /\ temp_files' = Downloaded(temp_files, entries, n)
           /\ \E ok \in BOOLEAN :
                  /\ ok => n = Len(entries)
                  /\ calls' = Append(calls, Call("download_folder", ok))
                  /\ wh_pc' = IF ok THEN "templates" ELSE failed_pc
    /\ UNCHANGED <<request, ticket_info, temp_dir, wh_result, upload_result,
                   response, notWebhook>>

\* local_folder = dropbox.download_folder(dropbox_path, temp_dir)
DownloadFolder == DownloadStep("download", "search")

\* found_path = dropbox.find_folder_by_name(folder_name); raise if None
FindFolderByName ==
    /\ wh_pc = "search"
    /\ \E found \in BOOLEAN :
           /\ calls' = Append(calls, Call("find_folder_by_name", found))
           /\ wh_pc' = IF found THEN "download_found" ELSE "except"
    /\ UNCHANGED <<request, ticket_info, temp_dir, temp_files, wh_result,
                   upload_result, response, notWebhook>>

\* local_folder = dropbox.download_folder(found_path, temp_dir)
DownloadFound == DownloadStep("download_found", "except")

\* the two load_template calls
LoadTemplates ==
    /\ wh_pc = "templates"
    /\ \E loaded \in BOOLEAN :
           wh_pc' = IF loaded THEN "process" ELSE "except"
    /\ UNCHANGED <<request, ticket_info, temp_dir, temp_files, wh_result,
                   upload_result, calls, response, notWebhook>>

\* result = process_press_release(folder_path=local_folder, ...) and the
\* 500 response when result['success'] is false
ProcessPressRelease ==
    /\ wh_pc = "process"
    /\ \E script \in Scripts, raises \in BOOLEAN :
           \E r \in {RunAlone(NewInvocation(TempDir), temp_files, script,
                             DefaultConfig, now)} :
              IF raises
              THEN /\ calls' = Append(calls,
                                      Call("process_press_release", FALSE))
                   /\ wh_pc' = "except"
                   /\ UNCHANGED <<temp_files, wh_result, response>>
              ELSE /\ temp_files' = r.disk
                   /\ wh_result' = r.st.result
                   /\ IF ~r.st.result.success
                      THEN /\ \E sent \in BOOLEAN :
                                  calls' =
                                      calls
                                          \o <<Call("process_press_release",
                                                    FALSE),
                                               Call("notify_error", sent)>>
                           /\ RespondInTry(500, "Processing failed")
                      ELSE /\ calls' =
                                  Append(calls,
                                         Call("process_press_release", TRUE))
                           /\ wh_pc' = "upload"
                           /\ UNCHANGED response
    /\ UNCHANGED <<request, ticket_info, temp_dir, upload_result, notWebhook>>

\* upload_result = upload_to_ftp(result['files_to_upload'], ...) and the
\* 500 response when upload_result['success'] is false
UploadToFtp ==
    /\ wh_pc = "upload"
    /\ \E outcome \in 0..(Len(wh_result.files_to_upload) + 2) :
           LET r == upload_to_ftp(wh_result.files_to_upload, outcome)
           IN /\ upload_result' = r
              /\ IF AfterUpload(r) = "upload_failed"
                 THEN /\ \E sent \in BOOLEAN :
                             calls' =
                                 calls \o <<Call("upload_to_ftp", r.success),
                                            Call("notify_error", sent)>>
                      /\ RespondInTry(500, "Upload failed")
                 ELSE /\ calls' =
                             Append(calls, Call("upload_to_ftp", r.success))
                      /\ wh_pc' = AfterUpload(r)
                      /\ UNCHANGED response
    /\ UNCHANGED <<request, ticket_info, temp_dir, temp_files, wh_result,
                   notWebhook>>

\* notify_press_release_ready(...) and the 200 response; the value the
\* notification returns is not looked at
NotifyReady ==
    /\ wh_pc = "notify"
    /\ \E sent \in BOOLEAN :
           calls' = Append(calls, Call("notify_press_release_ready", sent))
    /\ RespondInTry(200, "none")
    /\ UNCHANGED <<request, ticket_info, temp_dir, temp_files, wh_result,
                   upload_result, notWebhook>>

\* except Exception as e: notify_error and the 500 response
HandleException ==
    /\ wh_pc = "except"
    /\ \E sent \in BOOLEAN :
           calls' = Append(calls, Call("notify_error", sent))
    /\ RespondInTry(500, "Unexpected error")
    /\ UNCHANGED <<request, ticket_info, temp_dir, temp_files, wh_result,
                   upload_result, notWebhook>>

\* finally: shutil.rmtree(temp_dir, ignore_errors=True) if it exists.  The
\* directory and the files in it were made by this call of the handler, so
\* the removal goes through; ignore_errors is for a fault of the file
\* system, which the model does not have.
CleanUp ==
    /\ wh_pc = "finally"
    /\ IF temp_dir = "exists"
       THEN temp_dir' = "removed" /\ temp_files' = <<>>
       ELSE UNCHANGED <<temp_dir, temp_files>>
    /\ wh_pc' = "returned"
    /\ UNCHANGED <<request, ticket_info, wh_result, upload_result, calls,
                   response, notWebhook>>

(***************************************************************************)
(* Claims about the webhook handler                                        *)
(***************************************************************************)

\* the place of a pipeline step in the order download, process, upload,
\* notify; 0 for a call that is not a pipeline step
StepRank(name) ==
    IF name \in {"download_folder", "find_folder_by_name"} THEN 1
    ELSE IF name = "process_press_release" THEN 2
    ELSE IF name = "upload_to_ftp" THEN 3
    ELSE IF name = "notify_press_release_ready" THEN 4
    ELSE 0

\* the positions of the calls of name
CallsOf(name) == {i \in 1..Len(calls) : calls[i].name = name}

\* a call of one of names before position i that succeeded
SucceededBefore(names, i) ==
    \E j \in 1..(i - 1) : calls[j].name \in names /\ calls[j].ok

\* no pipeline step was called after position i
NoLaterStep(i) == \A j \in (i + 1)..Len(calls) : StepRank(calls[j].name) = 0

\* the handler has returned its response
HandlerReturned == wh_pc = "returned"

NotificationCalls == CallsOf("notify_error") \cup CallsOf("notify_press_release_ready")

\* the handler is over: it returned a response or an exception left it
HandlerOver == wh_pc \in {"returned", "raised"}

\* the request is a POST whose body parses as JSON
PostOfJson ==
    /\ request.method = "POST"
    /\ request.body.kind \notin {"invalid_json", "undecodable"}

\* C21: a POST request whose body parses as JSON makes exactly one Slack
\* notification call by the time the handler is over, whatever step failed;
\* any other request makes none; notify_press_release_ready and
\* notify_error are never both called for one request.
C21_OneNotification ==
    /\ CallsOf("notify_error") = {}
           \/ CallsOf("notify_press_release_ready") = {}
    /\ ~PostOfJson => NotificationCalls = {}
    /\ (HandlerOver /\ PostOfJson) => Cardinality(NotificationCalls) = 1

\* the request was rejected ahead of the download: not a POST, a body
\* that is not JSON, or required fields missing
RejectedBeforeDownload == response.statusCode \in {405, 400}

InitHtml ==
    HtmlInit /\ DocxIdle /\ MonthIdle /\ ImageIdle /\ ProcIdle /\ RenderIdle
        /\ ConcIdle
        /\ WebhookIdle

NextHtml == GetParagraphHtml

SpecHtml == InitHtml /\ [][NextHtml]_vars

Init ==
    DocxInit /\ HtmlIdle /\ MonthIdle /\ ImageIdle /\ ProcIdle /\ RenderIdle
        /\ ConcIdle
        /\ WebhookIdle

Next == ParseParagraph \/ FinishParse

Spec == Init /\ [][Next]_vars

InitMonth ==
    MonthInit /\ HtmlIdle /\ DocxIdle /\ ImageIdle /\ ProcIdle /\ RenderIdle
        /\ ConcIdle
        /\ WebhookIdle

NextMonth == GenerateMonthFolder

SpecMonth == InitMonth /\ [][NextMonth]_vars

InitImage ==
    ImageInit /\ HtmlIdle /\ DocxIdle /\ MonthIdle /\ ProcIdle /\ RenderIdle
        /\ ConcIdle
        /\ WebhookIdle

NextImage == ConvertImage

SpecImage == InitImage /\ [][NextImage]_vars

InitProcess ==
    ProcInit /\ HtmlIdle /\ DocxIdle /\ MonthIdle /\ ImageIdle /\ RenderIdle
        /\ ConcIdle
        /\ WebhookIdle

NextProcess ==
    \/ ValidateFolder
    \/ FindRequiredFiles
    \/ ParseDocument
    \/ ProcessImage
    \/ WriteWebHtml
    \/ WriteEmailHtml
    \/ BuildResult

SpecProcess == InitProcess /\ [][NextProcess]_vars

InitFind ==
    FindInit /\ HtmlIdle /\ DocxIdle /\ MonthIdle /\ ImageIdle /\ RenderIdle
        /\ ConcIdle
        /\ WebhookIdle

NextFind == FindFiles

SpecFind == InitFind /\ [][NextFind]_vars

InitRender ==
    RenderInit /\ HtmlIdle /\ DocxIdle /\ MonthIdle /\ ImageIdle /\ ProcIdle
        /\ ConcIdle
        /\ WebhookIdle

NextRender == RenderWeb \/ RenderEmail

SpecRender == InitRender /\ [][NextRender]_vars

InitConcurrent ==
    ConcInit /\ HtmlIdle /\ DocxIdle /\ MonthIdle /\ ImageIdle /\ ProcIdle
        /\ RenderIdle
        /\ WebhookIdle

NextConcurrent == StepFirst \/ StepSecond

SpecConcurrent == InitConcurrent /\ [][NextConcurrent]_vars

InitWebhook ==
    WebhookInit /\ HtmlIdle /\ DocxIdle /\ MonthIdle /\ ImageIdle /\ ProcIdle
        /\ RenderIdle /\ ConcIdle

NextWebhook ==
    \/ CheckMethod
    \/ ParsePayload
    \/ ExtractTicketInfo
    \/ ValidateFields
    \/ CreateTempDir
    \/ CreateClient
    \/ DownloadFolder
    \/ FindFolderByName
    \/ DownloadFound
    \/ LoadTemplates
    \/ ProcessPressRelease
    \/ UploadToFtp
    \/ NotifyReady
    \/ HandleException
    \/ CleanUp

SpecWebhook == InitWebhook /\ [][NextWebhook]_vars

====
